---- MODULE Spec2Model ----
(***************************************************************************)
(* A model of the workshop agent application (src/src/python/workshop):    *)
(*   - the MCP tool client (mcp_client.py): one persistent session to a    *)
(*     subprocess tool server, its lazy creation and its teardown;         *)
(*   - the chat stream (web_interface.py and app.py): the background run   *)
(*     task, the event handler that relays run events to a queue, and the  *)
(*     generator that drains the queue into SSE frames;                    *)
(*   - resource cleanup (utilities.py, app.py, main.py).                   *)
(* Every `await` of the Python code is a step boundary: a task is at a pc  *)
(* while the awaited call is outstanding and resumes with its outcome.     *)
(***************************************************************************)
EXTENDS Integers, Sequences, FiniteSets, TLC

(***************************************************************************)
(* Bounds of the model.                                                    *)
(***************************************************************************)
\* operations (tool calls, catalog fetches, closes) started on the MCP client
MaxOps == 2
\* remote run events delivered to one run's event handler
MaxEvents == 3
\* attachments carried by one thread-message event
MaxAttach == 2
\* uploaded files present on the remote service when cleanup runs
MaxFiles == 2
\* prompts the command-line loop reads
MaxPrompts == 3
\* tools in the server's catalog
MaxTools == 2
\* calls of cleanup
MaxCleanups == 2
\* events of the runs of two concurrent chat requests, together
MaxChatEvents == 1
\* components of a requested file name
MaxPath == 3
\* tokens of a query
MaxTokens == 3

\* Python's None for the client's handles (object identities are 1, 2, ...)
None == 0

\* logical threads of control that use the one MCP client
Tasks == {"A", "B"}

Outcomes == {"ok", "fail"}

VARIABLES
    \* ---- MCP client (mcp_client.py) ----
    mcpInst,      \* module global _mcp_client: None or the instance's number
    made,         \* history: MCPClient instances constructed so far
    client,       \* the instance's _session, _client_context, _read, _write
    ctxState,     \* stdio transport context managers: id -> state
    sessState,    \* ClientSession objects: id -> state
    pc,           \* each task's position
    op,           \* each task's current operation
    ret,          \* where close_session returns to
    loc,          \* the object whose method the task is awaiting
    outc,         \* the session-exit outcome close_session holds in `exceptions`
    res,          \* what the operation returned (or raised)
    adapterRes,   \* what the synthesized adapter returned (or raised)
    \* history of the MCP client, for the properties
    faulted,      \* a step of the task's current operation failed
    opened,       \* transports the current operation spawned
    served,       \* the server's reply reached the current operation
    sent,         \* requests the current operation sent on a session
    afterFail,    \* the operation before the current one failed
    lastFailed,   \* the most recently finished operation failed
    nOps,         \* operations started so far
    \* ---- chat stream (web_interface.py, app.py) ----
    impl,         \* which of the two stream implementations serves the request
    agentReady,   \* agent, thread and agents_client are set
    chat,         \* chat_sessions["default"]
    req,          \* each request: message kind and the generator's position
    task,         \* each request's background run task
    handler,      \* each request's WebStreamEventHandler
    queue,        \* each request's token_queue
    enq,          \* history: every item ever put on the request's queue
    frames,       \* history: every SSE frame the request's response yielded
    run,          \* history of the remote run: events, failure, posts
    \* ---- cleanup (utilities.py, app.py, main.py) ----
    cl,           \* the cleanup call: position, remaining files, attempts
    remote,       \* the remote service's resources: files, thread, agent
    \* ---- startup (agent_manager.py, app.py, main.py, config.py) ----
    ini,          \* the initialize call and the handles it sets
    tl,           \* the tool layer: the catalog and what is built from it
    \* ---- stateless handlers (web_interface.py, app.py, mcp_server.py) ----
    web,          \* the files on disk and the last call with its response
    cli           \* the command-line loop of main.py

mcpVars == <<mcpInst, made, client, ctxState, sessState, pc, op, ret, loc, outc, res,
             adapterRes, faulted, opened, served, sent, afterFail, lastFailed, nOps>>
streamVars == <<impl, agentReady, chat, req, task, handler, queue, enq, frames, run>>
cleanupVars == <<cl, remote, ini, tl, web, cli>>
vars == <<mcpVars, streamVars, cleanupVars>>

(***************************************************************************)
(* MCP client: mcp_client.py                                               *)
(***************************************************************************)
ObjIds == 1..(2 * MaxOps)

\* MCPClient.__init__: no session, no transport
NewClient == [session |-> None, ctx |-> None, read |-> None, write |-> None]

NoResult == [kind |-> "none"]
Raised == [kind |-> "raise"]
Str(s) == [kind |-> "str", val |-> s]
ToolList(n) == [kind |-> "list", len |-> n]

\* content blocks a tool result may carry
Blocks == {[type |-> "text", text |-> "t1"], [type |-> "text", text |-> "t2"],
           [type |-> "image"]}
Contents == {<<>>} \cup {<<b>> : b \in Blocks}
              \cup {<<b1, b2>> : b1 \in Blocks, b2 \in Blocks}

\* a faulty extraction that takes the last block
ExtractLastContent(content) ==
    IF Len(content) = 0 THEN "No result returned from tool"
    ELSE IF content[Len(content)].type = "text" THEN content[Len(content)].text
    ELSE "str(content_item)"

\* MCPClient._extract_content
ExtractContent(content) ==
    IF Len(content) = 0 THEN "No result returned from tool"
    ELSE IF content[1].type = "text" THEN content[1].text
    ELSE "str(content_item)"

FreshCtx == CHOOSE i \in ObjIds : ctxState[i] = "unused" /\ \A j \in 1..(i-1) : ctxState[j] # "unused"
FreshSess == CHOOSE i \in ObjIds : sessState[i] = "unused" /\ \A j \in 1..(i-1) : sessState[j] # "unused"

\* what a step inside an operation leaves alone
OpFrame == <<mcpInst, made, op, afterFail, lastFailed, nOps, streamVars, cleanupVars>>

\* a faulty get_mcp_client that constructs a client on every call
GetMcpClientAlwaysNew ==
    /\ mcpInst' = made + 1
    /\ made' = made + 1
    /\ client' = NewClient

\* get_mcp_client: the module-level instance, created on first use
GetMcpClient ==
    IF mcpInst = None
    THEN /\ mcpInst' = made + 1
         /\ made' = made + 1
         /\ client' = NewClient
    ELSE UNCHANGED <<mcpInst, made, client>>

\* call_mcp_tool_async / fetch_mcp_tools_async / a direct close_session:
\* a task starts an operation on the module-level client
Start(t, o) ==
    /\ pc[t] = "idle"
    /\ nOps < MaxOps
    /\ GetMcpClient
    /\ op' = [op EXCEPT ![t] = o]
    /\ pc' = [pc EXCEPT ![t] = IF o = "close_session" THEN "cs_check_sess" ELSE "es_check"]
    /\ ret' = [ret EXCEPT ![t] = IF o = "close_session" THEN "cs_return" ELSE "none"]
    /\ afterFail' = [afterFail EXCEPT ![t] = lastFailed]
    /\ nOps' = nOps + 1
    /\ UNCHANGED <<ctxState, sessState, loc, outc, res, adapterRes, faulted, opened, served, sent,
                   lastFailed>>
    /\ UNCHANGED <<streamVars, cleanupVars>>

\* _ensure_session, lines 47-50: with no session, create the transport context
\* and await its __aenter__ (the subprocess spawn)
EnsureSessionCheck(t) ==
    /\ pc[t] = "es_check"
    /\ IF client.session # None
       THEN /\ pc' = [pc EXCEPT ![t] = "op_request"]
            /\ UNCHANGED <<client, ctxState, loc>>
       ELSE /\ client' = [client EXCEPT !.ctx = FreshCtx]
            /\ ctxState' = [ctxState EXCEPT ![FreshCtx] = "created"]
            /\ loc' = [loc EXCEPT ![t] = FreshCtx]
            /\ pc' = [pc EXCEPT ![t] = "es_ctx_enter"]
    /\ UNCHANGED <<sessState, ret, outc, res, adapterRes, faulted, opened, served, sent>>
    /\ UNCHANGED OpFrame

\* _ensure_session, lines 50-52: the transport is up (or the spawn failed);
\* bind _read/_write, create the ClientSession and await its __aenter__
EnsureSessionCtxEntered(t, o) ==
    /\ pc[t] = "es_ctx_enter"
    /\ IF o = "ok"
       THEN /\ ctxState' = [ctxState EXCEPT ![loc[t]] = "open"]
            /\ client' = [client EXCEPT !.read = loc[t], !.write = loc[t],
                                        !.session = FreshSess]
            /\ sessState' = [sessState EXCEPT ![FreshSess] = "created"]
            /\ loc' = [loc EXCEPT ![t] = FreshSess]
            /\ opened' = [opened EXCEPT ![t] = @ + 1]
            /\ pc' = [pc EXCEPT ![t] = "es_sess_enter"]
            /\ UNCHANGED faulted
       ELSE /\ faulted' = [faulted EXCEPT ![t] = TRUE]
            /\ pc' = [pc EXCEPT ![t] = "es_except"]
            /\ UNCHANGED <<client, ctxState, sessState, loc, opened>>
    /\ UNCHANGED <<ret, outc, res, adapterRes, served, sent>>
    /\ UNCHANGED OpFrame

\* _ensure_session, lines 52-53: the session's __aenter__ returned; initialize()
\* is then called on whatever self._session holds
EnsureSessionSessEntered(t, o) ==
    /\ pc[t] = "es_sess_enter"
    /\ IF o = "ok"
       THEN /\ sessState' = [sessState EXCEPT ![loc[t]] = "entered"]
            /\ IF client.session # None
               THEN /\ loc' = [loc EXCEPT ![t] = client.session]
                    /\ pc' = [pc EXCEPT ![t] = "es_init"]
                    /\ UNCHANGED faulted
               ELSE \* AttributeError: None has no initialize
                    /\ faulted' = [faulted EXCEPT ![t] = TRUE]
                    /\ pc' = [pc EXCEPT ![t] = "es_except"]
                    /\ UNCHANGED loc
       ELSE /\ faulted' = [faulted EXCEPT ![t] = TRUE]
            /\ pc' = [pc EXCEPT ![t] = "es_except"]
            /\ UNCHANGED <<sessState, loc>>
    /\ UNCHANGED <<client, ctxState, opened, served, sent, ret, outc, res, adapterRes>>
    /\ UNCHANGED OpFrame

\* initialize() raised and the exception was swallowed: the operation goes on
AfterHandshakeIgnored(o) == "op_request"

\* _ensure_session, lines 53-57: after initialize() the caller goes on to its
\* request; an exception of the handshake goes to the handler, which re-raises
AfterHandshake(o) == IF o = "ok" THEN "op_request" ELSE "es_except"

\* _ensure_session, line 53: the initialize handshake returned
EnsureSessionInitialized(t, o) ==
    /\ pc[t] = "es_init"
    /\ pc' = [pc EXCEPT ![t] = AfterHandshake(o)]
    /\ IF o = "ok"
       THEN /\ sessState' = [sessState EXCEPT ![loc[t]] =
                                IF @ = "entered" THEN "initialized" ELSE @]
            /\ UNCHANGED faulted
       ELSE /\ faulted' = [faulted EXCEPT ![t] = TRUE]
            /\ UNCHANGED sessState
    /\ UNCHANGED <<client, ctxState, loc, opened, served, sent, ret, outc, res, adapterRes>>
    /\ UNCHANGED OpFrame

\* _ensure_session, lines 54-57: log, close the session, re-raise to the caller
EnsureSessionExcept(t) ==
    /\ pc[t] = "es_except"
    /\ pc' = [pc EXCEPT ![t] = "cs_check_sess"]
    /\ ret' = [ret EXCEPT ![t] = "op_except"]
    /\ UNCHANGED <<client, ctxState, sessState, loc, outc, res, adapterRes,
                   faulted, opened, served, sent>>
    /\ UNCHANGED OpFrame

\* a faulty close_session that leaves _session set (no `finally` reset)
ClearSessionSkipped(c) == c

\* close_session, lines 69-70: the `finally` after the session's __aexit__
ClearSession(c) == [c EXCEPT !.session = None]

\* a faulty close_session that leaves the transport handles set
ClearTransportSkipped(c) == c

\* a close_session whose second finally clause forgets _client_context
ClearTransportKeepsContext(c) == [c EXCEPT !.read = None, !.write = None]

\* close_session, lines 78-81: the `finally` after the transport's __aexit__
ClearTransport(c) == [c EXCEPT !.ctx = None, !.read = None, !.write = None]

\* a faulty close_session that gives up when the session's __aexit__ raises
AfterSessionExitAbort(o) == IF o = "fail" THEN "cs_done" ELSE "cs_check_ctx"

\* close_session, lines 64-68: an exception of the session's __aexit__ is
\* caught and logged; close_session goes on to the transport either way
AfterSessionExit(o) == "cs_check_ctx"

\* a faulty close_session that lets the transport's exception through
AfterTransportExitUncaught(o) == IF o = "fail" THEN "cs_raise" ELSE "cs_done"

\* close_session, lines 73-77: an exception of the transport's __aexit__ is
\* caught and logged; close_session returns normally either way
AfterTransportExit(o) == "cs_done"

\* close_session, line 63
CloseSessionCheckSession(t) ==
    /\ pc[t] = "cs_check_sess"
    /\ IF client.session # None
       THEN /\ loc' = [loc EXCEPT ![t] = client.session]
            /\ pc' = [pc EXCEPT ![t] = "cs_sess_exit"]
       ELSE /\ pc' = [pc EXCEPT ![t] = "cs_check_ctx"]
            /\ UNCHANGED loc
    /\ outc' = [outc EXCEPT ![t] = "ok"]
    /\ UNCHANGED <<client, ctxState, sessState, ret, res, adapterRes, faulted, opened, served, sent>>
    /\ UNCHANGED OpFrame

\* close_session, lines 64-70: the session's __aexit__ returned or raised
CloseSessionSessionExited(t, o) ==
    /\ pc[t] = "cs_sess_exit"
    /\ sessState' = [sessState EXCEPT ![loc[t]] =
                        IF o = "ok" THEN "exited" ELSE "exit_failed"]
    /\ client' = ClearSession(client)
    /\ outc' = [outc EXCEPT ![t] = o]
    /\ pc' = [pc EXCEPT ![t] = AfterSessionExit(o)]
    /\ UNCHANGED <<ctxState, loc, ret, res, adapterRes, faulted, opened, served, sent>>
    /\ UNCHANGED OpFrame

\* close_session, line 72
CloseSessionCheckTransport(t) ==
    /\ pc[t] = "cs_check_ctx"
    /\ IF client.ctx # None
       THEN /\ loc' = [loc EXCEPT ![t] = client.ctx]
            /\ pc' = [pc EXCEPT ![t] = "cs_ctx_exit"]
       ELSE /\ pc' = [pc EXCEPT ![t] = "cs_done"]
            /\ UNCHANGED loc
    /\ UNCHANGED <<client, ctxState, sessState, ret, outc, res, adapterRes,
                   faulted, opened, served, sent>>
    /\ UNCHANGED OpFrame

\* close_session, lines 73-81: the transport's __aexit__ returned or raised
CloseSessionTransportExited(t, o) ==
    /\ pc[t] = "cs_ctx_exit"
    /\ ctxState' = [ctxState EXCEPT ![loc[t]] =
                       IF o = "ok" THEN "exited" ELSE "exit_failed"]
    /\ client' = ClearTransport(client)
    /\ pc' = [pc EXCEPT ![t] = AfterTransportExit(o)]
    /\ UNCHANGED <<sessState, loc, ret, outc, res, adapterRes, faulted, opened, served, sent>>
    /\ UNCHANGED OpFrame

\* the error string of call_tool_async (line 108) and the empty list of
\* fetch_tools_async (line 136)
ErrorResult(o) ==
    IF o = "call_tool" THEN Str("Error calling tool") ELSE ToolList(0)

\* where an operation goes once it has its result: a tool call was made by a
\* synthesized adapter, which still has to return
Returned(o) == IF o = "call_tool" THEN "ad_return" ELSE "done"

\* close_session is over: control goes back to the caller (ret), normally
\* (cs_done) or with the exception close_session let through (cs_raise).
\*   op_except: called by _ensure_session's handler (line 56), which re-raises
\*              into the operation's try block;
\*   op_return: called by the operation's handler (lines 107, 135), which then
\*              returns the error value;
\*   cs_return: close_session called directly.
CloseSessionReturn(t) ==
    /\ pc[t] \in {"cs_done", "cs_raise"}
    /\ ret[t] \in {"op_except", "op_return", "cs_return"}
    /\ IF ret[t] = "op_except"
       THEN /\ pc' = [pc EXCEPT ![t] = "op_except"]
            /\ UNCHANGED res
       ELSE IF pc[t] = "cs_raise"
       THEN /\ res' = [res EXCEPT ![t] = Raised]
            /\ pc' = [pc EXCEPT ![t] = Returned(op[t])]
       ELSE IF ret[t] = "op_return"
       THEN /\ res' = [res EXCEPT ![t] = ErrorResult(op[t])]
            /\ pc' = [pc EXCEPT ![t] = Returned(op[t])]
       ELSE /\ res' = [res EXCEPT ![t] = [kind |-> "None"]]
            /\ pc' = [pc EXCEPT ![t] = "done"]
    /\ UNCHANGED <<client, ctxState, sessState, ret, loc, outc, adapterRes,
                   faulted, opened, served, sent>>
    /\ UNCHANGED OpFrame

\* call_tool_async lines 101-103, fetch_tools_async lines 116-118: the assert,
\* then the request is sent on the session the client holds
OpRequest(t) ==
    /\ pc[t] = "op_request"
    /\ IF client.session # None
       THEN /\ loc' = [loc EXCEPT ![t] = client.session]
            /\ sent' = [sent EXCEPT ![t] = @ + 1]
            /\ pc' = [pc EXCEPT ![t] = "op_wait"]
            /\ UNCHANGED faulted
       ELSE \* AssertionError, caught by the operation's handler
            /\ faulted' = [faulted EXCEPT ![t] = TRUE]
            /\ pc' = [pc EXCEPT ![t] = "op_except"]
            /\ UNCHANGED <<loc, sent>>
    /\ UNCHANGED <<client, ctxState, sessState, ret, outc, res, adapterRes, opened, served>>
    /\ UNCHANGED OpFrame

\* call_tool_async lines 103-104: the tool's result arrived
CallToolReplied(t, content) ==
    /\ pc[t] = "op_wait"
    /\ op[t] = "call_tool"
    /\ res' = [res EXCEPT ![t] = Str(ExtractContent(content))]
    /\ pc' = [pc EXCEPT ![t] = Returned(op[t])]
    /\ served' = [served EXCEPT ![t] = TRUE]
    /\ UNCHANGED sent
    /\ UNCHANGED <<client, ctxState, sessState, ret, loc, outc, adapterRes,
                   faulted, opened>>
    /\ UNCHANGED OpFrame

\* fetch_tools_async lines 118-131: the catalog arrived, one dict per tool
FetchToolsReplied(t, n) ==
    /\ pc[t] = "op_wait"
    /\ op[t] = "fetch_tools"
    /\ res' = [res EXCEPT ![t] = ToolList(n)]
    /\ pc' = [pc EXCEPT ![t] = Returned(op[t])]
    /\ served' = [served EXCEPT ![t] = TRUE]
    /\ UNCHANGED sent
    /\ UNCHANGED <<client, ctxState, sessState, ret, loc, outc, adapterRes,
                   faulted, opened>>
    /\ UNCHANGED OpFrame

\* a handler that tried the operation again from _ensure_session
AfterRequestFailureRetry(o) == "es_check"

\* call_tool_async lines 105-107, fetch_tools_async lines 132-135: an
\* exception of the request goes to the handler, which does not try again
AfterRequestFailure(o) == "op_except"

\* the request failed (the subprocess died, the server answered an error)
OpRequestFailed(t) ==
    /\ pc[t] = "op_wait"
    /\ faulted' = [faulted EXCEPT ![t] = TRUE]
    /\ pc' = [pc EXCEPT ![t] = AfterRequestFailure(op[t])]
    /\ UNCHANGED <<client, ctxState, sessState, ret, loc, outc, res, adapterRes,
                   opened, served, sent>>
    /\ UNCHANGED OpFrame

\* call_tool_async lines 106-107, fetch_tools_async lines 133-135: the handler
\* closes the session before it returns the error value
OpExcept(t) ==
    /\ pc[t] = "op_except"
    /\ ret' = [ret EXCEPT ![t] = "op_return"]
    /\ pc' = [pc EXCEPT ![t] = "cs_check_sess"]
    /\ UNCHANGED <<client, ctxState, sessState, loc, outc, res, adapterRes,
                   faulted, opened, served, sent>>
    /\ UNCHANGED OpFrame

\* make_tool_func, lines 202-217: the adapter returns the call's result, and
\* an exception of the call as an error string
AdapterResult(r) ==
    IF r = Raised THEN Str("Error executing tool") ELSE r

AdapterReturn(t) ==
    /\ pc[t] = "ad_return"
    /\ adapterRes' = [adapterRes EXCEPT ![t] = AdapterResult(res[t])]
    /\ pc' = [pc EXCEPT ![t] = "done"]
    /\ UNCHANGED <<client, ctxState, sessState, ret, loc, outc, res, faulted, opened, served, sent>>
    /\ UNCHANGED OpFrame

\* the operation's caller has its value; the task is free for the next one
FinishOp(t) ==
    /\ pc[t] = "done"
    /\ pc' = [pc EXCEPT ![t] = "idle"]
    /\ lastFailed' = IF op[t] = "close_session" THEN lastFailed ELSE faulted[t]
    /\ op' = [op EXCEPT ![t] = "none"]
    /\ ret' = [ret EXCEPT ![t] = "none"]
    /\ loc' = [loc EXCEPT ![t] = None]
    /\ outc' = [outc EXCEPT ![t] = "ok"]
    /\ res' = [res EXCEPT ![t] = NoResult]
    /\ adapterRes' = [adapterRes EXCEPT ![t] = NoResult]
    /\ faulted' = [faulted EXCEPT ![t] = FALSE]
    /\ opened' = [opened EXCEPT ![t] = 0]
    /\ served' = [served EXCEPT ![t] = FALSE]
    /\ sent' = [sent EXCEPT ![t] = 0]
    /\ afterFail' = [afterFail EXCEPT ![t] = FALSE]
    /\ UNCHANGED <<mcpInst, made, client, ctxState, sessState, nOps>>

Finish(t) ==
    /\ FinishOp(t)
    /\ UNCHANGED <<streamVars, cleanupVars>>

McpOps == {"call_tool", "fetch_tools", "close_session"}

\* single-flight use: an operation starts only while no other is in flight
SingleFlight(t) == \A u \in Tasks \ {t} : pc[u] = "idle"

McpInit ==
    /\ mcpInst = None
    /\ made = 0
    /\ client = NewClient
    /\ ctxState = [i \in ObjIds |-> "unused"]
    /\ sessState = [i \in ObjIds |-> "unused"]
    /\ pc = [t \in Tasks |-> "idle"]
    /\ op = [t \in Tasks |-> "none"]
    /\ ret = [t \in Tasks |-> "none"]
    /\ loc = [t \in Tasks |-> None]
    /\ outc = [t \in Tasks |-> "ok"]
    /\ res = [t \in Tasks |-> NoResult]
    /\ adapterRes = [t \in Tasks |-> NoResult]
    /\ faulted = [t \in Tasks |-> FALSE]
    /\ opened = [t \in Tasks |-> 0]
    /\ served = [t \in Tasks |-> FALSE]
    /\ sent = [t \in Tasks |-> 0]
    /\ afterFail = [t \in Tasks |-> FALSE]
    /\ lastFailed = FALSE
    /\ nOps = 0

(***************************************************************************)
(* Chat stream: web_interface.py (WebInterface.stream_chat and             *)
(* _generate_stream) and app.py (stream_chat and its generate), which      *)
(* differ in the handler's overrides and in run_agent's except clause.     *)
(***************************************************************************)
Requests == {"r1", "r2"}
Impls == {"web_interface", "app"}

\* the messages of chat requests, as sequences of characters
Messages == {<<>>, <<" ">>, <<"h">>, <<" ", "h">>}

\* delta texts the remote run may stream
Texts == {"a", "b"}

\* the items of a token_queue
TextItem(i, txt) ==
    \* web_interface.py line 158 puts a dict, app.py line 321 the bare text
    IF i = "web_interface" THEN [type |-> "text", val |-> txt]
    ELSE [type |-> "plain", val |-> txt]
FileItem(f) == [type |-> "file", val |-> f]
ErrorItem(e) == [type |-> "error", val |-> e]
EndItem == [type |-> "None", val |-> ""]

\* SSE frames
Frame(k, v) == [k |-> k, v |-> v]
DoneFrame == Frame("done", "[DONE]")
TimeoutFrame == Frame("error", "Response timeout after 60 seconds")
StreamingErrorFrame == Frame("error", "Streaming error: E")

\* a faulty drain loop without the branch for file items
FramesOfNoFile(i, item) ==
    IF i = "app" THEN <<Frame("content", item.val)>>
    ELSE IF item.type = "text" THEN <<Frame("content", item.val)>>
    ELSE IF item.type = "error" THEN <<Frame("error", item.val)>>
    ELSE <<>>

\* the drain loop's frame for a queue item: web_interface.py lines 224-235,
\* app.py line 366 (every token becomes a content frame)
FramesOf(i, item) ==
    IF i = "app" THEN <<Frame("content", item.val)>>
    ELSE IF item.type = "text" THEN <<Frame("content", item.val)>>
    ELSE IF item.type = "file" THEN <<Frame("file", item.val)>>
    ELSE IF item.type = "error" THEN <<Frame("error", item.val)>>
    ELSE IF item.type = "plain" THEN <<Frame("content", item.val)>>
    ELSE <<>>

NoTask == [st |-> "none", cancelReq |-> FALSE]
NewHandler == [assistant_message |-> <<>>, generated_files |-> <<>>]
NewRun == [events |-> 0, downloaded |-> 0, failedStatus |-> FALSE,
           raised |-> FALSE, posted |-> 0, timedOut |-> FALSE]

\* Utilities.get_file: the n files of one thread message, named after their ids
Downloaded(from, n) == [k \in 1..n |-> ToString(from + k)]

\* one queue for all handlers (a class attribute, a module global)
TokenQueueShared(r) == "r1"

\* the queue of the request's handler: each call of the generator creates its
\* handler, whose __init__ creates the queue (web_interface.py lines 151, 177;
\* app.py lines 314, 327)
TokenQueue(r) == r

Put(r, items) ==
    /\ queue' = [queue EXCEPT ![TokenQueue(r)] = @ \o items]
    /\ enq' = [enq EXCEPT ![r] = @ \o items]

Yield(r, fs) == frames' = [frames EXCEPT ![r] = @ \o fs]

\* str.strip(): the message without its leading and trailing whitespace
Strip(m) ==
    LET keep == {k \in 1..Len(m) : m[k] # " "}
    IN  IF keep = {} THEN <<>>
        ELSE SubSeq(m, CHOOSE k \in keep : \A j \in keep : k <= j,
                       CHOOSE k \in keep : \A j \in keep : k >= j)

\* a guard that tests the message as it came
IsEmptyMessageUnstripped(m) == m = <<>>

\* `not message.strip()`: web_interface.py line 107, app.py line 282
IsEmptyMessage(m) == Strip(m) = <<>>

\* stream_chat: web_interface.py lines 105-135, app.py lines 278-300.
\* The response of a rejected request is its one error frame.
StreamChat(r) ==
    /\ req[r].pc = "arrived"
    /\ IF IsEmptyMessage(req[r].msg)
       THEN /\ Yield(r, <<Frame("error", "Empty message")>>)
            /\ req' = [req EXCEPT ![r].pc = "end"]
            /\ UNCHANGED <<chat, handler>>
       ELSE IF ~agentReady
       THEN /\ Yield(r, <<Frame("error", "Agent not initialized")>>)
            /\ req' = [req EXCEPT ![r].pc = "end"]
            /\ UNCHANGED <<chat, handler>>
       ELSE /\ chat' = Append(chat, [role |-> "user", content |-> req[r].msg])
            /\ handler' = [handler EXCEPT ![r] = NewHandler]
            /\ req' = [req EXCEPT ![r].pc = "post"]
            /\ UNCHANGED frames
    /\ UNCHANGED <<impl, agentReady, task, queue, enq, run>>
    /\ UNCHANGED <<mcpVars, cleanupVars>>

\* _generate_stream lines 182-213 (generate lines 330-355): the user message was
\* posted and the run task is created; or messages.create raised and the outer
\* handler (line 257-258, 391-392) yields its error frame.  A task created here
\* runs its first segment before any timer of the generator can expire.
PostMessage(r, o) ==
    /\ req[r].pc = "post"
    /\ IF o = "ok"
       THEN /\ run' = [run EXCEPT ![r].posted = @ + 1]
            /\ task' = [task EXCEPT ![r] = [st |-> "running", cancelReq |-> FALSE]]
            /\ req' = [req EXCEPT ![r].pc = "drain"]
            /\ UNCHANGED frames
       ELSE /\ Yield(r, <<StreamingErrorFrame>>)
            /\ req' = [req EXCEPT ![r].pc = "end"]
            /\ UNCHANGED <<run, task>>
    /\ UNCHANGED <<impl, agentReady, chat, handler, queue, enq>>
    /\ UNCHANGED <<mcpVars, cleanupVars>>

TaskRuns(r) == task[r].st = "running" /\ ~task[r].cancelReq

\* a relay that handles every delta, with text or without
HasTextAlways(txt) == TRUE

\* `if delta.text`: web_interface.py line 155, app.py line 318
HasText(txt) == txt # ""

\* `self.assistant_message += delta.text` (lines 156, 319): a string as the
\* sequence of its non-empty chunks
Concat(s, txt) == IF txt = "" THEN s ELSE Append(s, txt)

\* WebStreamEventHandler.on_message_delta: web_interface.py lines 153-158,
\* app.py lines 316-321
OnMessageDelta(r, txt) ==
    /\ TaskRuns(r)
    /\ IF HasText(txt)
       THEN /\ run[r].events < MaxEvents
            /\ handler' = [handler EXCEPT ![r].assistant_message = Concat(@, txt)]
            /\ Put(r, <<TextItem(impl, txt)>>)
            /\ run' = [run EXCEPT ![r].events = @ + 1]
       ELSE UNCHANGED <<handler, queue, enq, run>>
    /\ UNCHANGED <<impl, agentReady, chat, req, task, frames>>
    /\ UNCHANGED <<mcpVars, cleanupVars>>

\* the file items on_thread_message puts after the download:
\* web_interface.py lines 171-174 (app.py has no override: none)
FileItemsToPut(i, files) ==
    IF i = "web_interface" THEN [k \in 1..Len(files) |-> FileItem(files[k])]
    ELSE <<>>

\* on_thread_message for a message with n attachments:
\* StreamEventHandler.on_thread_message (stream_event_handler.py lines 33-37)
\* downloads them (Utilities.get_files) and extends generated_files, then the
\* override of web_interface.py lines 163-174 puts the file items
OnThreadMessage(r, n) ==
    /\ TaskRuns(r)
    /\ run[r].events < MaxEvents
    /\ LET files == handler[r].generated_files \o Downloaded(run[r].downloaded, n) IN
       /\ handler' = [handler EXCEPT ![r].generated_files = files]
       /\ Put(r, FileItemsToPut(impl, files))
    /\ run' = [run EXCEPT ![r].events = @ + 1, ![r].downloaded = @ + n]
    /\ UNCHANGED <<impl, agentReady, chat, req, task, frames>>
    /\ UNCHANGED <<mcpVars, cleanupVars>>

\* StreamEventHandler.on_thread_run, stream_event_handler.py lines 39-45:
\* a FAILED status is printed
OnThreadRun(r, status) ==
    /\ TaskRuns(r)
    /\ run' = [run EXCEPT ![r].failedStatus = @ \/ (status = "failed")]
    /\ UNCHANGED <<impl, agentReady, chat, req, task, handler, queue, enq, frames>>
    /\ UNCHANGED <<mcpVars, cleanupVars>>

\* run_agent's except clause: web_interface.py lines 202-207 put an error item
\* with str(e); app.py's run_agent (lines 338-352) has no except clause
ItemsOnException(i) ==
    IF i = "web_interface" THEN <<ErrorItem("E")>> ELSE <<>>

\* a faulty run_agent that signals the end after the try statement instead of
\* in a finally clause
ItemsOnExitNoFinally(how) == IF how = "returned" THEN <<EndItem>> ELSE <<>>

\* run_agent's finally clause: web_interface.py lines 208-210, app.py 350-352;
\* it runs however the try block was left (returned, raised, cancelled)
ItemsOnExit(how) == <<EndItem>>

\* how the task ends after an exception of the stream
StateOnException(i) == IF i = "web_interface" THEN "finished" ELSE "raised"

\* run_agent: stream.until_done() returned
StreamDone(r) ==
    /\ TaskRuns(r)
    /\ Put(r, ItemsOnExit("returned"))
    /\ task' = [task EXCEPT ![r].st = "finished"]
    /\ UNCHANGED <<impl, agentReady, chat, req, handler, frames, run>>
    /\ UNCHANGED <<mcpVars, cleanupVars>>

\* run_agent: runs.stream or until_done raised (the remote call failed, a
\* handler's download failed); asyncio.Queue.put on an unbounded queue does
\* not suspend, so the except and finally clauses run without interruption
StreamRaised(r) ==
    /\ TaskRuns(r)
    /\ Put(r, ItemsOnException(impl) \o ItemsOnExit("raised"))
    /\ task' = [task EXCEPT ![r].st = StateOnException(impl)]
    /\ run' = [run EXCEPT ![r].raised = TRUE]
    /\ UNCHANGED <<impl, agentReady, chat, req, handler, frames>>
    /\ UNCHANGED <<mcpVars, cleanupVars>>

\* run_agent receives CancelledError at its await: not an Exception, so only
\* the finally clause runs
TaskCancelled(r) ==
    /\ task[r].st = "running"
    /\ task[r].cancelReq
    /\ Put(r, ItemsOnExit("cancelled"))
    /\ task' = [task EXCEPT ![r].st = "cancelled"]
    /\ UNCHANGED <<impl, agentReady, chat, req, handler, frames, run>>
    /\ UNCHANGED <<mcpVars, cleanupVars>>

\* the drain loop got an item: web_interface.py lines 219-235, app.py 361-366
DrainNext(item) == IF item = EndItem THEN "await_task" ELSE "drain"

DrainGet(r) ==
    /\ req[r].pc = "drain"
    /\ queue[TokenQueue(r)] # <<>>
    /\ LET item == Head(queue[TokenQueue(r)]) IN
       /\ queue' = [queue EXCEPT ![TokenQueue(r)] = Tail(@)]
       /\ IF item = EndItem
          THEN UNCHANGED frames
          ELSE Yield(r, FramesOf(impl, item))
       /\ req' = [req EXCEPT ![r].pc = DrainNext(item)]
    /\ UNCHANGED <<impl, agentReady, chat, task, handler, enq, run>>
    /\ UNCHANGED <<mcpVars, cleanupVars>>

\* a faulty drain loop that awaits token_queue.get() without a timeout
WaitNeverExpires == FALSE

\* whether the wait for an item can expire: asyncio.wait_for(..., timeout=60.0)
WaitExpires == TRUE

\* the drain loop's wait expired with the queue empty:
\* web_interface.py lines 237-239, app.py lines 371-373
DrainTimeout(r) ==
    /\ req[r].pc = "drain"
    /\ queue[TokenQueue(r)] = <<>>
    /\ WaitExpires
    /\ Yield(r, <<TimeoutFrame>>)
    /\ run' = [run EXCEPT ![r].timedOut = TRUE]
    /\ req' = [req EXCEPT ![r].pc = "await_task"]
    /\ UNCHANGED <<impl, agentReady, chat, task, handler, queue, enq>>
    /\ UNCHANGED <<mcpVars, cleanupVars>>

\* lines 248-255 (382-389): the assistant entry, then the completion frame
Complete(r) ==
    /\ chat' = IF handler[r].assistant_message # <<>>
               THEN Append(chat, [role |-> "assistant",
                                  content |-> handler[r].assistant_message])
               ELSE chat
    /\ Yield(r, <<DoneFrame>>)
    /\ req' = [req EXCEPT ![r].pc = "end"]

\* asyncio.wait_for(agent_task, timeout=5.0), lines 242-243 (376-377), with the
\* task over: its result is returned, or its exception raised into the
\* generator's outer handler (lines 257-258, 391-392)
AwaitTaskDone(r) ==
    /\ req[r].pc = "await_task"
    /\ task[r].st \in {"finished", "raised"}
    /\ IF task[r].st = "raised"
       THEN /\ Yield(r, <<StreamingErrorFrame>>)
            /\ req' = [req EXCEPT ![r].pc = "end"]
            /\ UNCHANGED chat
       ELSE Complete(r)
    /\ UNCHANGED <<impl, agentReady, task, handler, queue, enq, run>>
    /\ UNCHANGED <<mcpVars, cleanupVars>>

\* wait_for's 5 seconds expired with the task still running: wait_for cancels
\* the task and waits until it is over
AwaitTaskTimeout(r) ==
    /\ req[r].pc = "await_task"
    /\ task[r].st = "running"
    /\ task' = [task EXCEPT ![r].cancelReq = TRUE]
    /\ req' = [req EXCEPT ![r].pc = "await_cancel"]
    /\ UNCHANGED <<impl, agentReady, chat, handler, queue, enq, frames, run>>
    /\ UNCHANGED <<mcpVars, cleanupVars>>

\* lines 244-245 (378-379): wait_for raised TimeoutError; agent_task.cancel()
\* on the task that is over changes nothing
AwaitTaskCancelled(r) ==
    /\ req[r].pc = "await_cancel"
    /\ task[r].st = "cancelled"
    /\ Complete(r)
    /\ UNCHANGED <<impl, agentReady, task, handler, queue, enq, run>>
    /\ UNCHANGED <<mcpVars, cleanupVars>>

\* the client went away while the generator was suspended in the drain loop (at
\* the wait for an item or at a yield): the server ends the generator there
\* with CancelledError or GeneratorExit, which neither `except
\* asyncio.TimeoutError` nor `except Exception` (lines 257-258, 391-392)
\* catches, and no finally clause of the generator cancels agent_task
Disconnect(r) ==
    /\ req[r].pc = "drain"
    /\ req' = [req EXCEPT ![r].pc = "closed"]
    /\ UNCHANGED <<impl, agentReady, chat, task, handler, queue, enq, frames, run>>
    /\ UNCHANGED <<mcpVars, cleanupVars>>

\* the client went away while the generator waited for the task in
\* asyncio.wait_for(agent_task, timeout=5.0): wait_for passes the cancellation
\* on to the task and waits until the task is over
DisconnectInWait(r) ==
    /\ req[r].pc = "await_task"
    /\ task[r].st = "running"
    /\ task' = [task EXCEPT ![r].cancelReq = TRUE]
    /\ req' = [req EXCEPT ![r].pc = "closing"]
    /\ UNCHANGED <<impl, agentReady, chat, handler, queue, enq, frames, run>>
    /\ UNCHANGED <<mcpVars, cleanupVars>>

\* the cancelled task is over: CancelledError leaves the generator
ClosedAfterCancel(r) ==
    /\ req[r].pc = "closing"
    /\ task[r].st = "cancelled"
    /\ req' = [req EXCEPT ![r].pc = "closed"]
    /\ UNCHANGED <<impl, agentReady, chat, task, handler, queue, enq, frames, run>>
    /\ UNCHANGED <<mcpVars, cleanupVars>>

RunStatuses == {"failed", "completed"}

ProducerStep(r) ==
    \/ \E txt \in Texts \cup {""} : OnMessageDelta(r, txt)
    \/ \E n \in 0..MaxAttach : OnThreadMessage(r, n)
    \/ \E status \in RunStatuses : OnThreadRun(r, status)
    \/ StreamDone(r)
    \/ StreamRaised(r)

ConsumerStep(r) ==
    \/ DrainGet(r)
    \/ DrainTimeout(r)
    \/ AwaitTaskDone(r)
    \/ AwaitTaskTimeout(r)
    \/ AwaitTaskCancelled(r)

StreamNext ==
    \E r \in Requests :
        \/ StreamChat(r)
        \/ \E o \in Outcomes : PostMessage(r, o)
        \/ ProducerStep(r)
        \/ TaskCancelled(r)
        \/ ConsumerStep(r)

\* the state of the stream before any request: no run task, empty queues
StreamIdle ==
    /\ chat = <<>>
    /\ task = [r \in Requests |-> NoTask]
    /\ handler = [r \in Requests |-> NewHandler]
    /\ queue = [r \in Requests |-> <<>>]
    /\ enq = [r \in Requests |-> <<>>]
    /\ frames = [r \in Requests |-> <<>>]
    /\ run = [r \in Requests |-> NewRun]

\* one request, empty or not, served by either implementation, with the agent
\* initialized or not
StreamInit ==
    /\ impl \in Impls
    /\ agentReady \in BOOLEAN
    /\ \E m \in Messages :
          req = [r \in Requests |->
                    IF r = "r1" THEN [pc |-> "arrived", msg |-> m]
                    ELSE [pc |-> "absent", msg |-> <<>>]]
    /\ StreamIdle

(***************************************************************************)
(* Startup: Config.validate_required_env_vars (config.py),                 *)
(* AgentManager.initialize (agent_manager.py), initialize_agent with the   *)
(* lifespan of app.py, and main with initialize of main.py.                *)
(***************************************************************************)
InitImpls == {"agent_manager", "app", "main"}

\* the required settings, by the names of their environment variables
Settings == {"PROJECT_ENDPOINT", "AZURE_BING_CONNECTION_ID", "MODEL_DEPLOYMENT_NAME"}

\* a configuration: each setting has a value or is empty (a setting read with
\* os.getenv that is absent is None, which `not value` treats like "")
Configs == [Settings -> {"set", "empty"}]

Missing(cfg) == {v \in Settings : cfg[v] = "empty"}

\* Config.validate_required_env_vars, config.py lines 35-48: the first raise
\* names the empty ones of PROJECT_ENDPOINT and AZURE_BING_CONNECTION_ID; the
\* deployment name is checked in a second statement, reached only when the
\* first did not raise
ValidateRequiredEnvVars(cfg) ==
    LET missing_vars == {v \in {"PROJECT_ENDPOINT", "AZURE_BING_CONNECTION_ID"} :
                            cfg[v] = "empty"}
    IN IF missing_vars # {} THEN [kind |-> "error", names |-> missing_vars]
       ELSE IF cfg["MODEL_DEPLOYMENT_NAME"] = "empty"
       THEN [kind |-> "error", names |-> {"MODEL_DEPLOYMENT_NAME"}]
       ELSE [kind |-> "ok", names |-> {}]

\* the handles before initialize: AgentManager.__init__ (agent_manager.py lines
\* 21-28), the globals of app.py (lines 41-49)
NoInit == [pc |-> "idle", impl |-> "agent_manager",
           cfg |-> [v \in Settings |-> "set"], error |-> {},
           log |-> <<>>, failedAt |-> "none", result |-> "none",
           agents_client |-> FALSE, project_client |-> FALSE,
           agent |-> FALSE, thread |-> FALSE,
           mcp_tools |-> FALSE, fetched |-> 0, adapters |-> 0, toolset |-> <<>>]

\* the tool layer before any catalog was fetched
NoTools == [pc |-> "idle", catalog |-> <<>>, descriptors |-> <<>>, adapters |-> {}]

\* AgentManager.is_initialized, agent_manager.py lines 112-115
IsInitialized(m) ==
    m.agents_client /\ m.project_client /\ m.agent /\ m.thread /\ m.mcp_tools

\* the guard of AgentManager.cleanup (line 96) and of the lifespan's shutdown
\* (app.py line 73)
HasResources(m) == m.agent /\ m.thread /\ m.agents_client

\* a guard that tests the client alone
HasClientOnly(m) == m.agents_client

\* the guard of stream_chat: `not agent or not thread or not agents_client`
\* (web_interface.py line 113, app.py line 288), on the handles the lifespan
\* left (app.py line 64) or inject_dependencies received (web_interface.py
\* lines 36-43)
AgentInitialized(m) == m.agent /\ m.thread /\ m.agents_client

\* a faulty initialize whose try block has no handler
OnInitFailureRaise(i) == "raised"

\* what a failed step makes of the call: agent_manager.py lines 80-82 return
\* False, app.py lines 157-160 and main.py lines 95-98 return (None, None)
OnInitFailure(i) == "failed"

\* the call is over with a failure at `step`.  The manager keeps the handles
\* it has set; the lifespan of app.py (line 64) assigns the returned
\* (None, None) to the globals agent and thread, and main.py's are locals
InitFailed(m, step) ==
    [m EXCEPT !.pc = "done", !.failedAt = step, !.result = OnInitFailure(m.impl),
              !.agent = IF m.impl = "agent_manager" THEN @ ELSE FALSE,
              !.thread = IF m.impl = "agent_manager" THEN @ ELSE FALSE]

\* a faulty initialize that creates the agent before it loads the tools
NextInitPcAgentFirst(step) ==
    IF step = "auth" THEN "create_agent"
    ELSE IF step = "create_agent" THEN "tools"
    ELSE "create_thread"

\* the awaited step that follows an awaited step: agent_manager.py lines
\* 38-75, app.py lines 117-152
NextInitPc(step) ==
    IF step = "auth" THEN "tools"
    ELSE IF step = "tools" THEN "create_agent"
    ELSE "create_thread"

\* what the steps executed between two awaits add to the log
Logged(step) ==
    IF step = "auth" THEN <<"auth", "clients">>
    ELSE IF step = "tools" THEN <<"tools", "instructions">>
    ELSE IF step = "create_agent" THEN <<"create_agent", "enable_auto_function_calls">>
    ELSE <<"create_thread">>

InitFrame == UNCHANGED <<mcpVars, streamVars, cl, tl, web, cli>>

\* initialize is called: the configuration is validated, then the credential
\* is requested (agent_manager.py lines 32-38, app.py lines 111-117, main.py
\* lines 161-166)
InitCall(i, cfg) ==
    /\ ini.pc = "idle"
    /\ ini.result = "none"
    /\ LET v == ValidateRequiredEnvVars(cfg)
           m == [ini EXCEPT !.impl = i, !.cfg = cfg, !.log = <<"config">>,
                            !.error = v.names]
       IN ini' = IF v.kind = "error" THEN InitFailed(m, "config")
                 ELSE [m EXCEPT !.pc = "auth"]
    /\ UNCHANGED remote
    /\ InitFrame

\* validate_azure_authentication returned the credential or raised
\* (utilities.py lines 18-31); with the credential the two clients are built
InitAuthenticated(o) ==
    /\ ini.pc = "auth"
    /\ ini' = IF o = "ok"
              THEN [ini EXCEPT !.pc = NextInitPc("auth"), !.log = @ \o Logged("auth"),
                               !.agents_client = TRUE, !.project_client = TRUE]
              ELSE InitFailed([ini EXCEPT !.log = @ \o <<"auth">>], "auth")
    /\ UNCHANGED remote
    /\ InitFrame

\* _setup_tools / add_agent_tools call fetch_and_build_mcp_tools, which calls
\* fetch_mcp_tools_async (mcp_client.py line 186)
InitToolsFetch(t) ==
    /\ ini.pc = "tools"
    /\ cl.pc = "idle"
    /\ Start(t, "fetch_tools")

\* a faulty fetch_and_build_mcp_tools that raises when it has no tools
FetchAndBuildStrict(r) ==
    IF r.kind = "list" /\ r.len > 0 THEN [kind |-> "tool", n |-> r.len] ELSE Raised

\* fetch_and_build_mcp_tools, mcp_client.py lines 184-239: one adapter per
\* fetched schema; with no tools, or on an exception, an empty function tool
FetchAndBuild(r) ==
    IF r.kind = "list" THEN [kind |-> "tool", n |-> r.len] ELSE [kind |-> "tool", n |-> 0]

\* the catalog fetch is over: the function tool is built and added to the
\* toolset with the code interpreter (agent_manager.py lines 87-92, app.py
\* lines 94-101), the instructions are loaded (line 56, 133), and create_agent
\* is called
InitToolsBuilt(t, instr) ==
    /\ ini.pc = "tools"
    /\ op[t] = "fetch_tools"
    /\ FinishOp(t)
    /\ LET built == FetchAndBuild(res[t])
           fetched == IF res[t].kind = "list" THEN res[t].len ELSE 0
       IN ini' =
            IF built = Raised
            THEN InitFailed([ini EXCEPT !.log = @ \o <<"tools">>, !.fetched = fetched],
                            "tools")
            ELSE LET m == [ini EXCEPT !.mcp_tools = TRUE, !.fetched = fetched,
                                      !.adapters = built.n,
                                      !.toolset = @ \o <<"mcp_tools", "code_interpreter">>]
                 IN IF instr = "ok"
                    THEN [m EXCEPT !.pc = NextInitPc("tools"), !.log = @ \o Logged("tools")]
                    ELSE InitFailed([m EXCEPT !.log = @ \o Logged("tools")], "instructions")
    /\ UNCHANGED <<streamVars, cl, remote, tl, web, cli>>

\* create_agent returned or raised (agent_manager.py lines 60-71, app.py lines
\* 139-149); with the agent, enable_auto_function_calls runs and the thread is
\* requested
InitAgentCreated(o) ==
    /\ ini.pc = "create_agent"
    /\ IF o = "ok"
       THEN /\ ini' = [ini EXCEPT !.pc = NextInitPc("create_agent"),
                                  !.log = @ \o Logged("create_agent"), !.agent = TRUE]
            /\ remote' = [remote EXCEPT !.agent = TRUE]
       ELSE /\ ini' = InitFailed([ini EXCEPT !.log = @ \o <<"create_agent">>],
                                 "create_agent")
            /\ UNCHANGED remote
    /\ InitFrame

\* threads.create returned or raised (agent_manager.py lines 75-78, app.py
\* lines 152-155): initialize reports success
InitThreadCreated(o) ==
    /\ ini.pc = "create_thread"
    /\ IF o = "ok"
       THEN /\ ini' = [ini EXCEPT !.pc = "done", !.log = @ \o Logged("create_thread"),
                                  !.thread = TRUE, !.result = "ok"]
            /\ remote' = [remote EXCEPT !.thread = TRUE]
       ELSE /\ ini' = InitFailed([ini EXCEPT !.log = @ \o Logged("create_thread")],
                                 "create_thread")
            /\ UNCHANGED remote
    /\ InitFrame

\* startup is over, with the agent or without (the lifespan yields, app.py
\* line 70), and a chat request arrives: app.py serves its own globals, the
\* WebInterface the handles of the AgentManager
Serving(r, m) ==
    /\ ini.pc = "done"
    /\ ini.impl \in {"app", "agent_manager"}
    /\ \A q \in Requests : req[q].pc = "absent"
    /\ impl' = IF ini.impl = "app" THEN "app" ELSE "web_interface"
    /\ agentReady' = AgentInitialized(ini)
    /\ req' = [req EXCEPT ![r] = [pc |-> "arrived", msg |-> m]]
    /\ UNCHANGED <<chat, task, handler, queue, enq, frames, run>>
    /\ UNCHANGED <<mcpVars, cleanupVars>>

\* files reach the project while the application serves: uploads
\* (web_interface.py lines 63-103) and the code interpreter's output
FilesAppear(n) ==
    /\ ini.result = "ok"
    /\ cl.pc = "idle"
    /\ cl.runs = 0
    /\ remote.files = {}
    /\ remote' = [remote EXCEPT !.files = 1..n]
    /\ UNCHANGED <<mcpVars, streamVars, cl, ini, tl, web, cli>>

\* an application that went through a successful initialize
IniReady == [NoInit EXCEPT !.pc = "done", !.result = "ok",
                           !.log = <<"config">> \o Logged("auth") \o Logged("tools")
                                   \o Logged("create_agent") \o Logged("create_thread"),
                           !.agents_client = TRUE, !.project_client = TRUE,
                           !.agent = TRUE, !.thread = TRUE, !.mcp_tools = TRUE,
                           !.toolset = <<"mcp_tools", "code_interpreter">>]

(***************************************************************************)
(* Cleanup                                                                 *)
(***************************************************************************)
\* cleanup exists in three copies with the same steps:
\* Utilities.cleanup_agent_resources (utilities.py lines 140-164), cleanup of
\* app.py (lines 163-174) and cleanup of main.py (lines 101-112).
FileIds == 1..MaxFiles

NoCleanup == [pc |-> "idle", entry |-> "direct", given |-> FALSE, hadMcp |-> FALSE,
              todo |-> <<>>, listed |-> {}, tried |-> {}, attempted |-> {},
              order |-> <<>>, result |-> "none", runs |-> 0]

\* the command-line loop before main.py runs
NoCli == [pc |-> "off", last |-> <<>>, cmd |-> <<>>, reads |-> 0, posts |-> 0]

\* files.list(): the remote files, in the order of their ids
RECURSIVE Listing(_)
Listing(fs) ==
    IF fs = {} THEN <<>>
    ELSE LET f == CHOOSE x \in fs : \A y \in fs : x <= y
         IN <<f>> \o Listing(fs \ {f})

CleanupUnchanged == UNCHANGED <<client, ctxState, sessState, pc, op, ret, loc, outc,
                                res, adapterRes, faulted, opened, served, sent, afterFail,
                                lastFailed, nOps, streamVars, ini, tl, web, cli>>

\* cleanup is called with (agent, thread, agents_client) or without them;
\* cleanup_global_mcp_client (mcp_client.py lines 155-160) closes the session
\* of the module-level client if there is one
CleanupBegin(t, given, entry) ==
    /\ cl.pc = "idle"
    /\ cl.runs < MaxCleanups
    /\ \A u \in Tasks : pc[u] = "idle"
    /\ IF mcpInst # None
       THEN /\ pc' = [pc EXCEPT ![t] = "cs_check_sess"]
            /\ op' = [op EXCEPT ![t] = "cleanup"]
            /\ ret' = [ret EXCEPT ![t] = "cleanup"]
            /\ cl' = [NoCleanup EXCEPT !.pc = "mcp", !.entry = entry, !.given = given,
                                       !.hadMcp = TRUE, !.attempted = {"mcp_close"},
                                       !.order = <<"mcp_close">>, !.runs = cl.runs + 1]
       ELSE /\ cl' = [NoCleanup EXCEPT !.pc = "guard", !.entry = entry, !.given = given,
                                       !.runs = cl.runs + 1]
            /\ UNCHANGED <<pc, op, ret>>
    /\ UNCHANGED <<mcpInst, made, client, ctxState, sessState, loc, outc, res, adapterRes,
                   faulted, opened, served, sent, afterFail, lastFailed, nOps>>
    /\ UNCHANGED <<streamVars, remote, ini, tl, web>>

\* cleanup(agent, thread, client) called directly: main.py lines 216 and 225
\* (line 229 passes no client), Utilities.cleanup_agent_resources
CleanupStart(t, given) == CleanupBegin(t, given, "direct") /\ UNCHANGED cli

\* AgentManager.cleanup (agent_manager.py lines 94-103) and the shutdown of
\* the lifespan (app.py lines 73-78): cleanup is called only with an agent, a
\* thread and a client, and nothing is done without them
CleanupGuarded(t) ==
    IF HasResources(ini)
    THEN CleanupBegin(t, TRUE, "guarded") /\ UNCHANGED cli
    ELSE /\ cl.pc = "idle"
         /\ cl.runs < MaxCleanups
         /\ \A u \in Tasks : pc[u] = "idle"
         /\ cl' = [NoCleanup EXCEPT !.pc = "done", !.entry = "guarded",
                                    !.runs = cl.runs + 1]
         /\ UNCHANGED <<mcpInst, made, remote>>
         /\ CleanupUnchanged

\* cleanup_global_mcp_client, lines 161-164: an exception of close_session is
\* logged, and the global is reset in the finally clause
CleanupMcpClosed(t) ==
    /\ cl.pc = "mcp"
    /\ pc[t] \in {"cs_done", "cs_raise"}
    /\ ret[t] = "cleanup"
    /\ mcpInst' = None
    /\ UNCHANGED made
    /\ pc' = [pc EXCEPT ![t] = "idle"]
    /\ op' = [op EXCEPT ![t] = "none"]
    /\ ret' = [ret EXCEPT ![t] = "none"]
    /\ loc' = [loc EXCEPT ![t] = None]
    /\ outc' = [outc EXCEPT ![t] = "ok"]
    /\ cl' = [cl EXCEPT !.pc = "guard"]
    /\ UNCHANGED <<client, ctxState, sessState, res, adapterRes, faulted, opened,
                   served, sent, afterFail, lastFailed, nOps>>
    /\ UNCHANGED <<streamVars, remote, ini, tl, web, cli>>

\* utilities.py line 148: `if agent and thread and agents_client_instance`
CleanupGuard ==
    /\ cl.pc = "guard"
    /\ cl' = [cl EXCEPT !.pc = IF cl.given THEN "list" ELSE "done"]
    /\ UNCHANGED <<mcpInst, made, remote>>
    /\ CleanupUnchanged

\* a faulty cleanup whose remote calls are not inside a try block
AfterCleanupFailureUncaught(step) == "raised"

\* where cleanup goes when a remote call inside its one try block raises:
\* utilities.py lines 149-164, the except clause prints and cleanup returns
AfterCleanupFailure(step) == "done"

\* utilities.py line 151: files.list()
CleanupListFiles(o) ==
    /\ cl.pc = "list"
    /\ IF o = "ok"
       THEN cl' = [cl EXCEPT !.pc = "files", !.todo = Listing(remote.files),
                             !.listed = remote.files,
                             !.attempted = @ \cup {"list"}, !.order = @ \o <<"list">>]
       ELSE cl' = [cl EXCEPT !.pc = AfterCleanupFailure("list"),
                             !.attempted = @ \cup {"list"}, !.order = @ \o <<"list">>]
    /\ UNCHANGED <<mcpInst, made, remote>>
    /\ CleanupUnchanged

\* utilities.py lines 152-153: files.delete(f.id) for the next listed file
CleanupDeleteFile(o) ==
    /\ cl.pc = "files"
    /\ cl.todo # <<>>
    /\ LET f == Head(cl.todo) IN
       IF o = "ok"
       THEN /\ remote' = [remote EXCEPT !.files = @ \ {f}]
            /\ cl' = [cl EXCEPT !.todo = Tail(@), !.tried = @ \cup {f},
                                !.order = @ \o <<"file">>]
       ELSE /\ cl' = [cl EXCEPT !.pc = AfterCleanupFailure("files"),
                                !.tried = @ \cup {f}, !.order = @ \o <<"file">>]
            /\ UNCHANGED remote
    /\ UNCHANGED <<mcpInst, made>>
    /\ CleanupUnchanged

\* utilities.py line 156: threads.delete(thread.id); the service refuses to
\* delete a thread that does not exist
CleanupDeleteThread(o) ==
    /\ cl.pc = "files"
    /\ cl.todo = <<>>
    /\ o = "ok" => remote.thread
    /\ IF o = "ok"
       THEN /\ remote' = [remote EXCEPT !.thread = FALSE]
            /\ cl' = [cl EXCEPT !.pc = "agent", !.attempted = @ \cup {"thread"},
                                !.order = @ \o <<"thread">>]
       ELSE /\ cl' = [cl EXCEPT !.pc = AfterCleanupFailure("thread"),
                                !.attempted = @ \cup {"thread"},
                                !.order = @ \o <<"thread">>]
            /\ UNCHANGED remote
    /\ UNCHANGED <<mcpInst, made>>
    /\ CleanupUnchanged

\* utilities.py lines 159-161: delete_agent(agent.id), likewise, and the
\* success message
CleanupDeleteAgent(o) ==
    /\ cl.pc = "agent"
    /\ o = "ok" => remote.agent
    /\ IF o = "ok"
       THEN /\ remote' = [remote EXCEPT !.agent = FALSE]
            /\ cl' = [cl EXCEPT !.pc = "done", !.attempted = @ \cup {"agent"},
                                !.order = @ \o <<"agent">>]
       ELSE /\ UNCHANGED remote
            /\ cl' = [cl EXCEPT !.pc = AfterCleanupFailure("agent"),
                                !.attempted = @ \cup {"agent"},
                                !.order = @ \o <<"agent">>]
    /\ UNCHANGED <<mcpInst, made>>
    /\ CleanupUnchanged

\* cleanup is over.  An exception that left cleanup_agent_resources is caught
\* by the callers that guard it (agent_manager.py lines 102-103, app.py lines
\* 77-78) and reaches the caller of a direct call
CleanupReturn ==
    /\ cl.pc \in {"done", "raised"}
    /\ cl' = [cl EXCEPT !.pc = "idle",
                        !.result = IF cl.pc = "raised" /\ cl.entry = "direct"
                                   THEN "raised" ELSE "returned"]
    /\ UNCHANGED <<mcpInst, made, remote>>
    /\ CleanupUnchanged

(***************************************************************************)
(* The command-line loop: main of main.py, lines 187-217.                  *)
(***************************************************************************)
\* what the user may type: nothing, blanks, a question, and the two commands
\* in several spellings
Inputs == {<<>>, <<" ">>, <<"h">>, <<"exit">>, <<" ", "EXIT">>, <<"Save", " ">>}

\* str.lower on the words of the inputs
Lower(w) == CASE w = "EXIT" -> "exit" [] w = "Save" -> "save" [] OTHER -> w

LowerAll(m) == [k \in 1..Len(m) |-> Lower(m[k])]

\* a faulty loop exit that cleans up after either command
AfterLoopAlwaysCleanup(cmd) == "exit"

\* lines 208-217: after the loop, `save` prints where to find the agent, any
\* other command goes to cleanup
AfterLoop(cmd) == IF cmd = <<"save">> THEN "saved" ELSE "exit"

\* lines 190-206: one turn of the loop up to the start of post_message
CliRead(input) ==
    /\ cli.pc = "prompt"
    /\ cli.reads < MaxPrompts
    /\ LET prompt == Strip(input)
           cmd == LowerAll(prompt)
       IN  cli' = IF prompt = <<>>
                  THEN [cli EXCEPT !.last = input, !.reads = @ + 1]
                  ELSE IF cmd \in {<<"exit">>, <<"save">>}
                  THEN [cli EXCEPT !.last = input, !.reads = @ + 1, !.cmd = cmd,
                                   !.pc = AfterLoop(cmd)]
                  ELSE [cli EXCEPT !.last = input, !.reads = @ + 1, !.cmd = cmd,
                                   !.pc = "posting", !.posts = @ + 1]
    /\ UNCHANGED <<mcpVars, streamVars, cl, remote, ini, tl, web>>

\* post_message (lines 115-149) is over, with or without an exception, which
\* it logs; the loop prompts again
CliPostDone(t) ==
    /\ cli.pc = "posting"
    /\ pc[t] = "idle"
    /\ cli' = [cli EXCEPT !.pc = "prompt"]
    /\ UNCHANGED <<mcpVars, streamVars, cl, remote, ini, tl, web>>

\* line 216: cleanup(agent, thread, agents_client)
CliCleanup(t) ==
    /\ cli.pc = "exit"
    /\ CleanupBegin(t, TRUE, "direct")
    /\ cli' = [cli EXCEPT !.pc = "cleanup"]

\* line 217: cleanup returned, main ends
CliEnd ==
    /\ cli.pc = "cleanup"
    /\ cl.pc = "idle"
    /\ cl.result = "returned"
    /\ cli' = [cli EXCEPT !.pc = "ended"]
    /\ UNCHANGED <<mcpVars, streamVars, cl, remote, ini, tl, web>>

(***************************************************************************)
(* The tool layer: fetch_tools_async and fetch_and_build_mcp_tools          *)
(* (mcp_client.py), from the server's catalog to the adapters.             *)
(***************************************************************************)
ToolNames == {"execute_sales_query", "get_current_utc_date", "get_table_schema"}
Descriptions == {"d1", "d2"}
\* the named parameters an input schema declares
ParamSets == {{}, {"postgresql_query"}, {"table_name"}}

\* the tools a server may announce (tool.name, tool.description,
\* tool.inputSchema)
ServerTools == [name : ToolNames, description : Descriptions, inputSchema : ParamSets]

DistinctNames(c) == \A j, k \in 1..Len(c) : j # k => c[j].name # c[k].name

\* the catalogs of at most MaxTools tools; a server's tool names are distinct
RECURSIVE SeqsUpTo(_, _)
SeqsUpTo(S, n) ==
    IF n = 0 THEN {<<>>}
    ELSE LET shorter == SeqsUpTo(S, n - 1)
         IN shorter \cup {Append(q, x) : q \in shorter, x \in S}

Catalogs == {c \in SeqsUpTo(ServerTools, MaxTools) : DistinctNames(c)}

\* fetch_tools_async, lines 121-131: the dict built for one tool
Descriptor(tool) ==
    [type |-> "function",
     function |-> [name |-> tool.name, description |-> tool.description,
                   parameters |-> tool.inputSchema]]

\* the signatures of the two adapters: execute_sales_query_func(postgresql_query)
\* (line 202) and generic_tool_func(**kwargs) (line 212)
NamedSignature(ps) == [kind |-> "named", params |-> ps]
KwargsSignature == [kind |-> "kwargs", params |-> {}]

\* a faulty make_tool_func that leaves the adapters' own names and docstrings
MakeToolFuncUnnamed(k, d) ==
    IF d.function.name = "execute_sales_query"
    THEN [id |-> k, name |-> "execute_sales_query_func", doc |-> "none",
          signature |-> NamedSignature({"postgresql_query"})]
    ELSE [id |-> k, name |-> "generic_tool_func", doc |-> "none",
          signature |-> KwargsSignature]

\* make_tool_func, lines 195-227: the function object made for the k-th
\* schema; the signature is chosen by the tool's name, and __name__ and
\* __doc__ are set from the schema
MakeToolFunc(k, d) ==
    [id |-> k, name |-> d.function.name, doc |-> d.function.description,
     signature |-> IF d.function.name = "execute_sales_query"
                   THEN NamedSignature({"postgresql_query"})
                   ELSE KwargsSignature]

\* fetch_and_build_mcp_tools, lines 188-235: no function for an empty list,
\* else the set of the functions made for the schemas
BuildAdapters(descriptors) ==
    IF Len(descriptors) = 0 THEN {}
    ELSE {MakeToolFunc(k, descriptors[k]) : k \in 1..Len(descriptors)}

ToolsFrame == UNCHANGED <<mcpVars, streamVars, cl, remote, ini, web, cli>>

\* fetch_tools_async returns the descriptors of the listed tools
ToolsFetched ==
    /\ tl.pc = "idle"
    /\ tl' = [tl EXCEPT !.pc = "fetched",
                        !.descriptors = [k \in 1..Len(tl.catalog) |->
                                            Descriptor(tl.catalog[k])]]
    /\ ToolsFrame

\* fetch_and_build_mcp_tools builds the function tool from the descriptors
ToolsBuilt ==
    /\ tl.pc = "fetched"
    /\ tl' = [tl EXCEPT !.pc = "built", !.adapters = BuildAdapters(tl.descriptors)]
    /\ ToolsFrame

(***************************************************************************)
(* Stateless handlers: serve_file and upload_file (web_interface.py,       *)
(* app.py) and the query tool of the server (mcp_server.py).  A path is    *)
(* the sequence of its components, from the root.                          *)
(***************************************************************************)
\* files_dir: Path(shared_files_path) / "files", web_interface.py line 262
FilesDir == <<"shared", "files">>

\* no call yet, nothing on disk but the directories
NoWeb == [fs |-> [files |-> {}, link |-> {}], call |-> "none",
          arg |-> <<>>, resp |-> [status |-> 0]]

\* Path.resolve(): `..` steps to the parent, a name is appended, and the
\* symbolic link files/l is replaced by its target; components that do not
\* exist are kept as they are
RECURSIVE Resolve(_, _, _)
Resolve(fs, cur, comps) ==
    IF comps = <<>> THEN cur
    ELSE LET c == Head(comps)
             nxt == IF c = ".."
                    THEN SubSeq(cur, 1, IF cur = <<>> THEN 0 ELSE Len(cur) - 1)
                    ELSE IF Append(cur, c) = Append(FilesDir, "l") /\ fs.link # {}
                    THEN CHOOSE t \in fs.link : TRUE
                    ELSE Append(cur, c)
         IN Resolve(fs, nxt, Tail(comps))

\* Path.exists() and Path.is_file(): the system walks the path, every
\* component before the last must be a directory, and the last a regular file
RECURSIVE IsFile(_, _, _)
IsFile(fs, cur, comps) ==
    IF comps = <<>> THEN cur \in fs.files
    ELSE /\ cur \in {<<>>, <<"shared">>, FilesDir}
         /\ IsFile(fs, Resolve(fs, cur, <<Head(comps)>>), Tail(comps))

\* serve_file, web_interface.py lines 260-274
ServeFile(fs, filename) ==
    IF ~IsFile(fs, FilesDir, filename)
    THEN [status |-> 404, detail |-> "File not found"]
    ELSE LET target == Resolve(fs, FilesDir, filename)
         IN IF Len(target) < Len(FilesDir) \/ SubSeq(target, 1, Len(FilesDir)) # FilesDir
            THEN [status |-> 403, detail |-> "Access denied"]
            ELSE [status |-> 200, path |-> FilesDir \o filename, file |-> target]

\* GET /files/{filename}
ServeFileCall(filename) ==
    /\ web.call = "none"
    /\ web' = [web EXCEPT !.call = "serve_file", !.arg = filename,
                          !.resp = ServeFile(web.fs, filename)]
    /\ UNCHANGED <<mcpVars, streamVars, cl, remote, ini, tl, cli>>

\* _extract_content applied to the content of a tool result
ExtractContentCall(content) ==
    /\ web.call = "none"
    /\ web' = [web EXCEPT !.call = "extract_content", !.arg = content,
                          !.resp = [val |-> ExtractContent(content)]]
    /\ UNCHANGED <<mcpVars, streamVars, cl, remote, ini, tl, cli>>

\* a size check that rejects the limit itself
OversizeInclusive(n) == n >= 10 * 1024 * 1024

\* `len(content) > 10 * 1024 * 1024`, web_interface.py line 68, app.py line 239
Oversize(n) == n > 10 * 1024 * 1024

\* upload_file, web_interface.py lines 63-103, app.py lines 234-274.  The file
\* name is the sequence of its parts between dots; an exception of read() or
\* of decode() in the txt/md branch reaches the outer handler.
UploadFile(file, message) ==
    LET lower == [x \in {"a", "TXT", "md", "pdf", "docx", "bin"} |->
                     IF x = "TXT" THEN "txt" ELSE x]
        name == file.filename
        file_extension == IF Len(name) > 1 THEN lower[name[Len(name)]] ELSE ""
        failed == [error |-> "Error processing file"]
        content(file_text) ==
            [content |-> <<IF message # "" THEN message ELSE "Please analyze this file",
                           file_text>>,
             filename |-> name]
    IN  IF file.read = "fail" THEN failed
        ELSE IF Oversize(file.size) THEN [error |-> "File size too large (max 10MB)"]
        ELSE IF file_extension \in {"txt", "md"}
        THEN IF file.utf8 THEN content("decoded") ELSE failed
        ELSE IF file_extension = "pdf" THEN content("[PDF file content]")
        ELSE IF file_extension \in {"doc", "docx"} THEN content("[Word document content]")
        ELSE IF file.utf8 THEN content("decoded") ELSE content("[Binary file]")

\* POST /upload
UploadFileCall(file, message) ==
    /\ web.call = "none"
    /\ web' = [web EXCEPT !.call = "upload_file", !.arg = <<file, message>>,
                          !.resp = UploadFile(file, message)]
    /\ UNCHANGED <<mcpVars, streamVars, cl, remote, ini, tl, cli>>

\* execute_sales_query, mcp_server.py lines 206-219.  The query is the
\* sequence of its tokens; `"LIMIT" in postgresql_query.upper()` holds when
\* the upper-cased text of some token contains LIMIT; db tells how
\* execute_query ends.
ExecuteSalesQuery(postgresql_query, db) ==
    LET upper == [x \in {"SELECT", "20", "LIMIT", "limit", "credit_limit"} |->
                     IF x = "limit" THEN "LIMIT"
                     ELSE IF x = "credit_limit" THEN "CREDIT_LIMIT" ELSE x]
    IN  IF postgresql_query = <<>>
        THEN [text |-> "Error: postgresql_query parameter is required", executed |-> FALSE]
        ELSE IF ~\E k \in 1..Len(postgresql_query) :
                    upper[postgresql_query[k]] \in {"LIMIT", "CREDIT_LIMIT"}
        THEN [text |-> "Error: Query must include 'LIMIT 20'", executed |-> FALSE]
        ELSE IF db = "ok" THEN [text |-> "Query Results", executed |-> TRUE]
        ELSE [text |-> "Error executing database query", executed |-> TRUE]

\* the agent calls the tool
ExecuteSalesQueryCall(query, db) ==
    /\ web.call = "none"
    /\ web' = [web EXCEPT !.call = "execute_sales_query", !.arg = query,
                          !.resp = ExecuteSalesQuery(query, db)]
    /\ UNCHANGED <<mcpVars, streamVars, cl, remote, ini, tl, cli>>

\* a server with some catalog, nothing fetched yet
ToolsInit ==
    /\ cl = NoCleanup
    /\ remote = [files |-> {}, thread |-> FALSE, agent |-> FALSE]
    /\ ini = NoInit
    /\ \E c \in Catalogs : tl = [NoTools EXCEPT !.catalog = c]
    /\ web = NoWeb
    /\ cli = NoCli

CleanupIdle ==
    /\ cl = NoCleanup
    /\ remote = [files |-> {}, thread |-> FALSE, agent |-> FALSE]
    /\ ini = NoInit
    /\ tl = NoTools
    /\ web = NoWeb
    /\ cli = NoCli

\* an initialized application: the agent and the thread exist remotely, with
\* some uploaded files
CleanupInit ==
    /\ cl = NoCleanup
    /\ \E n \in 0..MaxFiles :
          remote = [files |-> 1..n, thread |-> TRUE, agent |-> TRUE]
    /\ ini = IniReady
    /\ tl = NoTools
    /\ web = NoWeb
    /\ cli = NoCli

StreamQuiet ==
    /\ impl = "web_interface"
    /\ agentReady = FALSE
    /\ req = [r \in Requests |-> [pc |-> "absent", msg |-> <<>>]]
    /\ StreamIdle

(***************************************************************************)
(* Specifications                                                          *)
(***************************************************************************)
\* a step of an operation in flight on the MCP client
OpStep(t) ==
    \/ EnsureSessionCheck(t)
    \/ \E o \in Outcomes : EnsureSessionCtxEntered(t, o)
    \/ \E o \in Outcomes : EnsureSessionSessEntered(t, o)
    \/ \E o \in Outcomes : EnsureSessionInitialized(t, o)
    \/ EnsureSessionExcept(t)
    \/ CloseSessionCheckSession(t)
    \/ \E o \in Outcomes : CloseSessionSessionExited(t, o)
    \/ CloseSessionCheckTransport(t)
    \/ \E o \in Outcomes : CloseSessionTransportExited(t, o)
    \/ CloseSessionReturn(t)
    \/ OpRequest(t)
    \/ \E content \in Contents : CallToolReplied(t, content)
    \/ \E n \in 0..MaxTools : FetchToolsReplied(t, n)
    \/ OpRequestFailed(t)
    \/ OpExcept(t)
    \/ AdapterReturn(t)

McpStep(t) ==
    \/ OpStep(t)
    \/ Finish(t)

McpNext ==
    \E t \in Tasks :
        \/ \E o \in McpOps : SingleFlight(t) /\ Start(t, o)
        \/ McpStep(t)

\* no client yet, no chat request, no cleanup
InitMcp == McpInit /\ StreamQuiet /\ CleanupIdle

\* the MCP client under single-flight use
SpecMcp == InitMcp /\ [][McpNext]_vars

\* the interactive loop of main.py (lines 189-217) and the lifespan of app.py
\* (lines 58-78) run their tool operations and cleanup on one task
MainTask == "A"

CleanupNext ==
    \/ \E t \in {MainTask} :
          \/ \E o \in McpOps : cl.pc = "idle" /\ SingleFlight(t) /\ Start(t, o)
          \/ McpStep(t)
          \/ \E given \in BOOLEAN : CleanupStart(t, given)
          \/ CleanupMcpClosed(t)
    \/ CleanupGuard
    \/ \E o \in Outcomes : CleanupListFiles(o)
    \/ \E o \in Outcomes : CleanupDeleteFile(o)
    \/ \E o \in Outcomes : CleanupDeleteThread(o)
    \/ \E o \in Outcomes : CleanupDeleteAgent(o)
    \/ CleanupReturn

\* an initialized application before its first tool operation
InitCleanup == McpInit /\ StreamQuiet /\ CleanupInit

\* tool operations and cleanup calls on an initialized application
SpecCleanup == InitCleanup /\ [][CleanupNext]_vars

LifecycleNext ==
    \/ \E i \in InitImpls, cfg \in Configs : InitCall(i, cfg)
    \/ \E o \in Outcomes : InitAuthenticated(o)
    \/ \E o \in Outcomes : InitAgentCreated(o)
    \/ \E o \in Outcomes : InitThreadCreated(o)
    \/ \E n \in 1..MaxFiles : FilesAppear(n)
    \/ \E t \in {MainTask} :
          \/ InitToolsFetch(t)
          \/ \E instr \in Outcomes : InitToolsBuilt(t, instr)
          \/ ini.result = "ok" /\ cl.pc = "idle" /\ cl.runs = 0 /\ Start(t, "call_tool")
          \/ OpStep(t)
          \/ ini.pc # "tools" /\ Finish(t)
          \/ \E given \in BOOLEAN :
                ini.impl = "main" /\ ini.result = "ok" /\ CleanupStart(t, given)
          \/ ini.impl # "main" /\ ini.pc = "done" /\ CleanupGuarded(t)
          \/ CleanupMcpClosed(t)
    \/ CleanupGuard
    \/ \E o \in Outcomes : CleanupListFiles(o)
    \/ \E o \in Outcomes : CleanupDeleteFile(o)
    \/ \E o \in Outcomes : CleanupDeleteThread(o)
    \/ \E o \in Outcomes : CleanupDeleteAgent(o)
    \/ CleanupReturn

\* operations on the shared client started without waiting for one another:
\* call_mcp_tool_async and fetch_mcp_tools_async take no lock
ConcurrentNext ==
    \E t \in Tasks :
        \/ \E o \in McpOps : Start(t, o)
        \/ McpStep(t)

InitConcurrent == McpInit /\ StreamQuiet /\ CleanupIdle

\* the MCP client with operations of two tasks interleaved at their awaits
SpecConcurrent == InitConcurrent /\ [][ConcurrentNext]_vars

\* a step of a tool call or of a close_session in flight
ToolCallStep(t) ==
    \/ EnsureSessionCheck(t)
    \/ \E o \in Outcomes : EnsureSessionCtxEntered(t, o)
    \/ \E o \in Outcomes : EnsureSessionSessEntered(t, o)
    \/ \E o \in Outcomes : EnsureSessionInitialized(t, o)
    \/ EnsureSessionExcept(t)
    \/ CloseSessionCheckSession(t)
    \/ \E o \in Outcomes : CloseSessionSessionExited(t, o)
    \/ CloseSessionCheckTransport(t)
    \/ \E o \in Outcomes : CloseSessionTransportExited(t, o)
    \/ CloseSessionReturn(t)
    \/ OpRequest(t)
    \/ \E content \in Contents : CallToolReplied(t, content)
    \/ OpRequestFailed(t)
    \/ OpExcept(t)
    \/ AdapterReturn(t)
    \/ Finish(t)

\* the loop of main.py: prompts, the tool calls of a posted message, and the
\* cleanup after `exit`
CliNext ==
    \/ \E input \in Inputs : CliRead(input)
    \/ \E t \in {MainTask} :
          \/ cli.pc = "posting" /\ Start(t, "call_tool")
          \/ ToolCallStep(t)
          \/ CliPostDone(t)
          \/ CliCleanup(t)
          \/ CleanupMcpClosed(t)
    \/ CleanupGuard
    \/ \E o \in Outcomes : CleanupListFiles(o)
    \/ \E o \in Outcomes : CleanupDeleteFile(o)
    \/ \E o \in Outcomes : CleanupDeleteThread(o)
    \/ \E o \in Outcomes : CleanupDeleteAgent(o)
    \/ CleanupReturn
    \/ CliEnd

\* main.py initialized: the agent and the thread exist, with some uploaded
\* files, and the loop is about to prompt
InitCli ==
    /\ McpInit /\ StreamQuiet
    /\ cl = NoCleanup
    /\ \E n \in 0..MaxFiles :
          remote = [files |-> 1..n, thread |-> TRUE, agent |-> TRUE]
    /\ ini = [IniReady EXCEPT !.impl = "main"]
    /\ tl = NoTools
    /\ web = NoWeb
    /\ cli = [NoCli EXCEPT !.pc = "prompt"]

SpecCli == InitCli /\ [][CliNext]_vars

\* nothing exists yet: no client, no agent, no thread, no files
InitLifecycle == McpInit /\ StreamQuiet /\ CleanupIdle

\* the life of one application: initialize, then its cleanup calls
SpecLifecycle == InitLifecycle /\ [][LifecycleNext]_vars

ToolsNext == ToolsFetched \/ ToolsBuilt

InitTools == McpInit /\ StreamQuiet /\ ToolsInit

\* the tool layer applied to every catalog
SpecTools == InitTools /\ [][ToolsNext]_vars

\* startup, then a chat request up to stream_chat's return
ServeNext ==
    \/ \E i \in {"app", "agent_manager"}, cfg \in Configs : InitCall(i, cfg)
    \/ \E o \in Outcomes : InitAuthenticated(o)
    \/ \E o \in Outcomes : InitAgentCreated(o)
    \/ \E o \in Outcomes : InitThreadCreated(o)
    \/ \E t \in {MainTask} :
          \/ InitToolsFetch(t)
          \/ \E instr \in Outcomes : InitToolsBuilt(t, instr)
          \/ EnsureSessionCheck(t)
          \/ \E o \in Outcomes : EnsureSessionCtxEntered(t, o)
          \/ \E o \in Outcomes : EnsureSessionSessEntered(t, o)
          \/ \E o \in Outcomes : EnsureSessionInitialized(t, o)
          \/ EnsureSessionExcept(t)
          \/ CloseSessionCheckSession(t)
          \/ \E o \in Outcomes : CloseSessionSessionExited(t, o)
          \/ CloseSessionCheckTransport(t)
          \/ \E o \in Outcomes : CloseSessionTransportExited(t, o)
          \/ CloseSessionReturn(t)
          \/ OpRequest(t)
          \/ \E n \in 0..MaxTools : FetchToolsReplied(t, n)
          \/ OpRequestFailed(t)
          \/ OpExcept(t)
    \/ \E r \in Requests :
          \/ \E m \in Messages : Serving(r, m)
          \/ StreamChat(r)

InitServe == McpInit /\ StreamQuiet /\ CleanupIdle

\* the web application from its startup to the admission of its first chat
\* request
SpecServe == InitServe /\ [][ServeNext]_vars

\* two chat requests at once, the events of their runs bounded together
ChatsNext ==
    \E r \in Requests :
        \/ StreamChat(r)
        \/ \E o \in Outcomes : PostMessage(r, o)
        \/ /\ run["r1"].events + run["r2"].events < MaxChatEvents
           /\ \/ \E txt \in Texts \cup {""} : OnMessageDelta(r, txt)
              \/ \E n \in 0..MaxAttach : OnThreadMessage(r, n)
        \/ \E status \in RunStatuses : OnThreadRun(r, status)
        \/ StreamDone(r)
        \/ StreamRaised(r)
        \/ TaskCancelled(r)
        \/ ConsumerStep(r)

\* both requests have arrived, the agent is initialized
InitChats ==
    /\ McpInit /\ StreamIdle /\ CleanupIdle
    /\ impl \in Impls
    /\ agentReady = TRUE
    /\ req = [r \in Requests |->
                [pc |-> "arrived", msg |-> IF r = "r1" THEN <<"h">> ELSE <<" ", "h">>]]

SpecChats == InitChats /\ [][ChatsNext]_vars

\* one call of a stateless handler
HandlersNext ==
    \/ \E filename \in SeqsUpTo({"..", "f", "l"}, MaxPath) \ {<<>>} : ServeFileCall(filename)
    \/ \E size \in {0, 10 * 1024 * 1024 - 1, 10 * 1024 * 1024, 10 * 1024 * 1024 + 1,
                     20 * 1024 * 1024},
          read \in Outcomes, utf8 \in BOOLEAN, message \in {"", "m"},
          name \in {<<"a">>, <<"a", "TXT">>, <<"a", "md">>, <<"a", "pdf">>,
                    <<"a", "docx">>, <<"a", "bin">>} :
          UploadFileCall([read |-> read, size |-> size, utf8 |-> utf8, filename |-> name],
                         message)
    \/ \E query \in SeqsUpTo({"SELECT", "20", "LIMIT", "limit", "credit_limit"}, MaxTokens),
          db \in Outcomes :
          ExecuteSalesQueryCall(query, db)
    \/ \E content \in Contents : ExtractContentCall(content)

\* the files directory holds f or not, a file f exists next to it or not, and
\* files/l may be a symbolic link to either, or to the parent directory
InitHandlers ==
    /\ McpInit /\ StreamQuiet
    /\ cl = NoCleanup
    /\ remote = [files |-> {}, thread |-> FALSE, agent |-> FALSE]
    /\ ini = NoInit
    /\ tl = NoTools
    /\ \E files \in SUBSET {Append(FilesDir, "f"), <<"shared", "f">>},
          link \in {{}, {Append(FilesDir, "f")}, {<<"shared", "f">>}, {<<"shared">>}} :
          web = [NoWeb EXCEPT !.fs = [files |-> files, link |-> link]]
    /\ cli = NoCli

SpecHandlers == InitHandlers /\ [][HandlersNext]_vars

\* a chat request has arrived
InitStream == McpInit /\ StreamInit /\ CleanupIdle

\* one chat request
SpecStream == InitStream /\ [][StreamNext]_vars

\* one chat request whose client may go away before the response is complete
DisconnectNext ==
    \/ StreamNext
    \/ \E r \in Requests :
          \/ Disconnect(r)
          \/ DisconnectInWait(r)
          \/ ClosedAfterCancel(r)

InitDisconnect == McpInit /\ StreamInit /\ CleanupIdle

SpecDisconnect == InitDisconnect /\ [][DisconnectNext]_vars

\* one chat request under the event loop's scheduling: a generator that can
\* take a step (an item is queued, a wait expires, the awaited task is over)
\* takes it, and a cancelled task is resumed with its CancelledError.  Nothing
\* obliges the remote service to answer or the run to emit events.
FairSpecStream ==
    /\ SpecStream
    /\ \A r \in Requests : WF_vars(ConsumerStep(r)) /\ WF_vars(TaskCancelled(r))

(***************************************************************************)
(* Properties of the MCP client (checked under SpecMcp)                    *)
(***************************************************************************)
ToolOps == {"call_tool", "fetch_tools"}
ClientClosed == client = NewClient
ClientReady ==
    /\ client.session # None /\ sessState[client.session] = "initialized"
    /\ client.ctx # None /\ ctxState[client.ctx] = "open"
    /\ client.read = client.ctx /\ client.write = client.ctx

\* C1: every tool invocation resolves to a string and never raises:
\* call_tool_async returns a string whichever of its steps fails (the transport
\* spawn, the session entry, the handshake, the request), also when closing
\* the session in the handler fails, and the adapter built by make_tool_func
\* returns a string for every outcome of the call.
C1_ToolCallReturnsString ==
    \A t \in Tasks :
        op[t] = "call_tool" =>
            /\ (pc[t] \in {"ad_return", "done"} => res[t].kind = "str")
            /\ (pc[t] = "done" => adapterRes[t].kind = "str")

\* a tool call whose request failed on a session whose close failed as well
\* has returned the error string through the adapter
C1_Witness ==
    \E t \in Tasks :
        /\ pc[t] = "done" /\ op[t] = "call_tool"
        /\ faulted[t] /\ outc[t] = "fail"
        /\ adapterRes[t] = Str("Error calling tool")

\* C2: reconnect on failure: when a call_tool_async or fetch_tools_async has
\* failed, the client holds no session and no transport (all four fields are
\* None); and a call that follows a failed one and meets no failure itself has
\* opened one fresh transport and session, holds them ready, and returns the
\* server's reply, not an error.
C2_ReconnectAfterFailure ==
    \A t \in Tasks :
        (pc[t] = "done" /\ op[t] \in ToolOps) =>
            /\ faulted[t] => ClientClosed
            /\ (afterFail[t] /\ ~faulted[t]) =>
                  /\ opened[t] = 1
                  /\ served[t]
                  /\ ClientReady
                  /\ res[t] # ErrorResult("call_tool")
                  /\ res[t].kind = (IF op[t] = "call_tool" THEN "str" ELSE "list")

\* a call right after a failed one that reconnected and was served
C2_Witness ==
    \E t \in Tasks :
        /\ pc[t] = "done" /\ op[t] \in ToolOps
        /\ afterFail[t] /\ ~faulted[t]
        /\ opened[t] = 1 /\ served[t] /\ ClientReady

(***************************************************************************)
(* Properties of the chat stream (checked under SpecStream, the            *)
(* termination under FairSpecStream)                                       *)
(***************************************************************************)
RECURSIVE CountOf(_, _)
CountOf(s, x) ==
    IF s = <<>> THEN 0
    ELSE (IF Head(s) = x THEN 1 ELSE 0) + CountOf(Tail(s), x)

IsPrefix(s, u) == Len(s) <= Len(u) /\ SubSeq(u, 1, Len(s)) = s

TaskOver(r) == task[r].st \in {"finished", "raised", "cancelled"}
Accepted(r) == (\E k \in 1..Len(req[r].msg) : req[r].msg[k] # " ") /\ agentReady

\* C3: for every run task the chat stream starts, exactly one end sentinel
\* (None) is put on the request's queue, however the task exits (the stream
\* finished, the stream raised, the task was cancelled), and the task puts
\* nothing after its sentinel; a task still running has put none.
C3_OneSentinelPerTask ==
    \A r \in Requests :
        /\ TaskOver(r) => CountOf(enq[r], EndItem) = 1
        /\ ~TaskOver(r) => CountOf(enq[r], EndItem) = 0
        /\ CountOf(enq[r], EndItem) > 0 => enq[r][Len(enq[r])] = EndItem

\* a task that put items, was cancelled, and put its sentinel last
C3_Witness ==
    \E r \in Requests :
        /\ task[r].st = "cancelled"
        /\ Len(enq[r]) >= 2
        /\ CountOf(enq[r], EndItem) = 1

\* C4: every SSE response the generator produces for an accepted message ends
\* with exactly one `data: [DONE]` frame and nothing after it, whether the run
\* completes, posting the user message raises, the run raises, or the drain
\* times out and the task is cancelled.
C4_ResponseEndsWithDone ==
    \A r \in Requests :
        (Accepted(r) /\ req[r].pc = "end") =>
            /\ CountOf(frames[r], DoneFrame) = 1
            /\ frames[r][Len(frames[r])] = DoneFrame

\* the frame the relay's consumer owes for a queue item: text as content, a
\* file as file, an error as error
OwedFrame(item) ==
    Frame(IF item.type = "file" THEN "file"
          ELSE IF item.type = "error" THEN "error" ELSE "content", item.val)

Relayed(r) == SelectSeq(frames[r], LAMBDA f : f \notin {TimeoutFrame, DoneFrame})
Enqueued(r) == SelectSeq(enq[r], LAMBDA i : i # EndItem)
Owed(r) == [k \in 1..Len(Enqueued(r)) |-> OwedFrame(Enqueued(r)[k])]
DrainEndedOnSentinel(r) ==
    req[r].pc \in {"await_task", "await_cancel", "end"} /\ ~run[r].timedOut

\* C5: end-to-end FIFO order (web_interface.py): for a request whose run was
\* started, the content/file/error frames emitted so far (the timeout frame
\* and [DONE] aside) are at all times a prefix of the frames owed for the
\* items the relay enqueued for that run, in the same order, nothing
\* reordered, duplicated, merged or skipped; once the drain has ended on the
\* end sentinel the two sequences are equal.
C5_FifoRelay ==
    \A r \in Requests :
        (impl = "web_interface" /\ task[r].st # "none") =>
            /\ IsPrefix(Relayed(r), Owed(r))
            /\ DrainEndedOnSentinel(r) => Relayed(r) = Owed(r)

\* a drain of web_interface.py that ended on the sentinel after relaying text,
\* file and error items
C5_Witness ==
    \E r \in Requests :
        /\ impl = "web_interface" /\ req[r].pc = "end" /\ ~run[r].timedOut
        /\ Len(Relayed(r)) >= 3
        /\ \E i, j, k \in 1..Len(frames[r]) :
              /\ frames[r][i].k = "content"
              /\ frames[r][j].k = "file"
              /\ frames[r][k].k = "error"

FileItems(r) == SelectSeq(enq[r], LAMBDA i : i.type = "file")

\* C6: within one run each attachment the remote run reports produces exactly
\* one file item on the queue (web_interface.py): after any sequence of
\* thread-message events the number of file items enqueued equals the number
\* of attachments downloaded, and no attachment's file item is enqueued twice.
C6_OneFileItemPerAttachment ==
    \A r \in Requests :
        impl = "web_interface" =>
            /\ Len(FileItems(r)) = run[r].downloaded
            /\ \A i, j \in 1..Len(FileItems(r)) :
                  FileItems(r)[i] = FileItems(r)[j] => i = j

ErrorFrames(r) == SelectSeq(frames[r], LAMBDA f : f.k = "error")

\* C7: every failed run is surfaced to the SSE client as exactly one error
\* frame (web_interface.py): whether the failure arrives as a run-status
\* FAILED event or as an exception of the run task, the finished response
\* holds one and only one error frame.
C7_FailedRunOneErrorFrame ==
    \A r \in Requests :
        (impl = "web_interface" /\ req[r].pc = "end"
            /\ (run[r].failedStatus \/ run[r].raised)) =>
            Len(ErrorFrames(r)) = 1

ErrorItems(r) == SelectSeq(enq[r], LAMBDA i : i.type = "error")

\* C8: when the background run task raises, the orchestration (run_agent of
\* web_interface.py and of app.py) enqueues exactly one error item carrying
\* the exception text, directly before the end sentinel; without an exception
\* (a run-failed status event alone) no error item is enqueued.
C8_ErrorItemBeforeSentinel ==
    \A r \in Requests :
        /\ (TaskOver(r) /\ run[r].raised) =>
              /\ ErrorItems(r) = <<ErrorItem("E")>>
              /\ Len(enq[r]) >= 2
              /\ enq[r][Len(enq[r]) - 1] = ErrorItem("E")
              /\ enq[r][Len(enq[r])] = EndItem
        /\ ~run[r].raised => ErrorItems(r) = <<>>

RECURSIVE IndexOf(_, _)
IndexOf(s, x) == IF s = <<>> \/ Head(s) = x THEN 1 ELSE 1 + IndexOf(Tail(s), x)

\* what the drain loop guarantees in every state: it is left on the first wait
\* that expires, with exactly one timeout frame, and no queue item is emitted
\* after that frame
C9_DrainStopsOnExpiry ==
    \A r \in Requests :
        /\ CountOf(frames[r], TimeoutFrame) = (IF run[r].timedOut THEN 1 ELSE 0)
        /\ run[r].timedOut =>
              /\ req[r].pc # "drain"
              /\ \A j \in (IndexOf(frames[r], TimeoutFrame) + 1)..Len(frames[r]) :
                    frames[r][j] \in {DoneFrame, StreamingErrorFrame}

\* C9: the drain loop always terminates: whatever the producer does (also when
\* it never enqueues anything), the loop stops on the end sentinel or on the
\* first 60-second wait that expires; on expiry it emits exactly one timeout
\* error frame and no queue item after it, and the generator still completes.
C9_DrainTerminates ==
    /\ [](C9_DrainStopsOnExpiry)
    /\ \A r \in Requests : (req[r].pc = "drain") ~> (req[r].pc = "end")

\* a response completed after a wait expired on a producer that never
\* enqueued anything before it was cancelled
C9_Witness ==
    \E r \in Requests :
        /\ req[r].pc = "end" /\ run[r].timedOut
        /\ enq[r] = <<EndItem>>
        /\ frames[r] = <<TimeoutFrame, DoneFrame>>

\* C23: an empty or whitespace-only message yields exactly one frame, the
\* `Empty message` error, and nothing else (no [DONE]), and has no side effect:
\* the chat history is unchanged, no message is posted to the remote thread,
\* no run task is started and nothing is enqueued.
C23_EmptyMessageRejected ==
    \A r \in Requests :
        (req[r].pc # "absent" /\ \A k \in 1..Len(req[r].msg) : req[r].msg[k] = " ") =>
            /\ req[r].pc \in {"arrived", "end"}
            /\ frames[r] = IF req[r].pc = "end"
                           THEN <<Frame("error", "Empty message")>> ELSE <<>>
            /\ chat = <<>>
            /\ run[r] = NewRun /\ task[r] = NoTask /\ enq[r] = <<>>

\* a whitespace-only message was answered, with the agent initialized
C23_Witness ==
    \E r \in Requests :
        /\ req[r].msg = <<" ">> /\ req[r].pc = "end" /\ agentReady
        /\ frames[r] = <<Frame("error", "Empty message")>>

\* C24: after a failed initialization the web process keeps serving: a
\* non-empty chat request yields exactly one `Agent not initialized` error
\* frame and nothing else, without changing the chat history and without any
\* remote call (nothing posted, no run task, nothing enqueued, no operation on
\* the MCP client).
C24_NotInitializedRejected ==
    \A r \in Requests :
        (ini.result = "failed" /\ req[r].pc # "absent"
            /\ \E k \in 1..Len(req[r].msg) : req[r].msg[k] # " ") =>
            /\ req[r].pc \in {"arrived", "end"}
            /\ frames[r] = IF req[r].pc = "end"
                           THEN <<Frame("error", "Agent not initialized")>> ELSE <<>>
            /\ chat = <<>>
            /\ run[r] = NewRun /\ task[r] = NoTask /\ enq[r] = <<>>
            /\ \A t \in Tasks : pc[t] = "idle"

\* thread creation failed after the agent was created, and a request with a
\* padded message was answered
C24_Witness ==
    \E r \in Requests :
        /\ ini.failedAt = "create_thread" /\ ini.agents_client
        /\ req[r].msg = <<" ", "h">> /\ req[r].pc = "end"
        /\ frames[r] = <<Frame("error", "Agent not initialized")>>

\* C25: the chat history records every turn: an accepted request has appended
\* exactly one user entry, before anything is posted, and once its response
\* has ended with its run over, the history holds after it exactly one
\* assistant entry with the turn's transcript if the transcript is non-empty,
\* and none otherwise; no other entry exists.
C25_HistoryRecordsEveryTurn ==
    \A r \in Requests :
        (Accepted(r) /\ req[r].pc \notin {"absent", "arrived"}) =>
            LET user == [role |-> "user", content |-> req[r].msg]
                assistant == [role |-> "assistant",
                              content |-> handler[r].assistant_message]
            IN /\ chat # <<>> /\ chat[1] = user
               /\ (req[r].pc = "end" /\ handler[r].assistant_message # <<>>) =>
                     chat = <<user, assistant>>
               /\ (req[r].pc # "end" \/ handler[r].assistant_message = <<>>) =>
                     chat = <<user>>

RECURSIVE ConcatAll(_)
ConcatAll(items) ==
    IF items = <<>> THEN <<>>
    ELSE Concat(ConcatAll(SubSeq(items, 1, Len(items) - 1)), items[Len(items)].val)

TextItems(r) == SelectSeq(enq[r], LAMBDA i : i.type \in {"text", "plain"})

\* C26: the relay appends each non-empty text delta to the turn's transcript
\* and enqueues one text item with the same payload: at every point the
\* transcript is the concatenation, in order, of the payloads of the text
\* items enqueued in that run; an empty delta changes neither, so no text item
\* has an empty payload and there is one item per chunk of the transcript.
C26_TranscriptMatchesTextItems ==
    \A r \in Requests :
        /\ handler[r].assistant_message = ConcatAll(TextItems(r))
        /\ Len(TextItems(r)) = Len(handler[r].assistant_message)
        /\ \A k \in 1..Len(TextItems(r)) :
              /\ TextItems(r)[k].val # ""
              /\ TextItems(r)[k] = TextItem(impl, handler[r].assistant_message[k])

\* two deltas were relayed, with other events in between or not
C26_Witness ==
    \E r \in Requests :
        /\ handler[r].assistant_message = <<"b", "a">>
        /\ Len(TextItems(r)) = 2

\* C30: queues are never shared across requests: with two chat requests in
\* flight, what a request's queue holds was put by its own run task and
\* handler, the content, file and error frames emitted on its stream are, in
\* order, frames owed for items its own handler and task enqueued, and its
\* drain loop ends on a sentinel only when its own run task has put one: a
\* run's sentinel or error item never reaches the other request's consumer.
C30_QueuePerRequest ==
    \A r \in Requests :
        LET own == SelectSeq(frames[r],
                      LAMBDA f : f \notin {TimeoutFrame, DoneFrame, StreamingErrorFrame})
            n == Len(enq[r]) - Len(queue[r])
        IN /\ n >= 0 /\ queue[r] = SubSeq(enq[r], n + 1, Len(enq[r]))
           /\ IsPrefix(own, Owed(r))
           /\ (task[r].st # "none" /\ DrainEndedOnSentinel(r)) =>
                 (TaskOver(r) /\ own = Owed(r))
           /\ \A k \in 1..Len(frames[r]) :
                 (frames[r][k].k = "error" /\ frames[r][k] \notin {TimeoutFrame, StreamingErrorFrame})
                     => run[r].raised

\* both requests are draining their queues: the first has relayed a frame and
\* waits for more, the second's run has failed and its items are queued
C30_Witness ==
    /\ req["r1"].pc = "drain" /\ req["r2"].pc = "drain"
    /\ task["r1"].st = "running" /\ frames["r1"] # <<>> /\ queue["r1"] = <<>>
    /\ run["r2"].raised /\ queue["r2"] # <<>>

\* C33 (checked under SpecDisconnect): no run task outlives its request:
\* whenever the stream generator has ended (after the sentinel, after the drain
\* timeout, or through an exception inside the generator), the run task, if one
\* was started, has finished or been cancelled.
C33_NoTaskOutlivesRequest ==
    \A r \in Requests :
        req[r].pc \in {"end", "closed"} =>
            task[r].st \in {"none", "finished", "raised", "cancelled"}

\* without a disconnection the generator never ends before its task
RunTaskOverAtEnd ==
    \A r \in Requests : req[r].pc = "end" => task[r].st # "running"

(***************************************************************************)
(* Properties of cleanup (checked under SpecCleanup)                       *)
(***************************************************************************)
\* C36: the module-level MCP client is a singleton between cleanups:
\* get_mcp_client keeps returning the same instance until
\* cleanup_global_mcp_client runs; cleanup_global_mcp_client closes that
\* instance's session and resets the global to None even when closing fails,
\* never raises, and is a no-op when no instance exists; a later get_mcp_client
\* creates a new instance with no session.
C36_SingletonBetweenCleanups ==
    [][/\ (mcpInst # None /\ mcpInst' # mcpInst) =>
            (mcpInst' = None /\ cl.pc = "mcp" /\ cl'.pc = "guard" /\ ClientClosed')
       /\ (mcpInst = None /\ mcpInst' # None) =>
            (mcpInst' > made /\ client' = NewClient)
       /\ (cl.pc = "mcp" /\ cl'.pc # "mcp") =>
            (mcpInst' = None /\ cl'.pc = "guard")
       /\ (cl.pc = "idle" /\ cl'.pc # "idle" /\ mcpInst = None) =>
            (mcpInst' = None /\ cl'.pc # "mcp"
               /\ UNCHANGED <<client, ctxState, sessState, pc>>)]_vars

\* a second instance in use after a cleanup whose close of the first
\* instance's transport failed
C36_Witness ==
    /\ made = 2 /\ mcpInst = 2
    /\ cl.runs >= 1
    /\ \E i \in ObjIds : ctxState[i] = "exit_failed"
    /\ ClientReady

\* C10: cleanup's steps are independently best-effort: when cleanup, called
\* with the agent, the thread and the client, has returned, every step was
\* attempted whatever failed before it: closing the MCP session (if a client
\* exists), listing the files, deleting each listed file, deleting the thread
\* and deleting the agent.
C10_CleanupStepsIndependent ==
    (cl.pc = "done" /\ cl.given) =>
        /\ cl.hadMcp => "mcp_close" \in cl.attempted
        /\ {"list", "thread", "agent"} \subseteq cl.attempted
        /\ cl.listed \subseteq cl.tried

(***************************************************************************)
(* Properties of startup and cleanup (checked under SpecLifecycle)         *)
(***************************************************************************)
Range(q) == {q[k] : k \in 1..Len(q)}

\* no transport and no session of the MCP client is left open
McpTornDown ==
    /\ mcpInst = None \/ ClientClosed
    /\ \A i \in ObjIds : ctxState[i] # "open" /\ sessState[i] \notin {"entered", "initialized"}

\* the steps of a complete cleanup, in order
FullCleanupOrder ==
    (IF cl.hadMcp THEN <<"mcp_close">> ELSE <<>>)
        \o <<"list">> \o [k \in 1..Cardinality(cl.listed) |-> "file"]
        \o <<"thread", "agent">>

\* C11: whenever cleanup has run (AgentManager.cleanup, the lifespan's
\* shutdown, the exit path of main.py), no MCP session or transport remains
\* open, and for an initialized application it has torn down the MCP client
\* session and then gone through listing and deleting the uploaded files,
\* deleting the thread and deleting the agent, in that order.
C11_CleanupTearsDownInOrder ==
    cl.pc = "done" =>
        /\ McpTornDown
        /\ ini.result = "ok" => cl.order = FullCleanupOrder

\* C34: a failed initialization leaves nothing dangling after shutdown: when
\* AgentManager.initialize or app.initialize_agent has failed after the MCP
\* session was opened or after the remote agent was created, the cleanup that
\* follows (AgentManager.cleanup, the lifespan's shutdown) leaves no MCP session
\* or transport open and no remote agent.
C34_FailedInitLeavesNothing ==
    (ini.impl \in {"agent_manager", "app"} /\ ini.result = "failed" /\ cl.pc = "done") =>
        /\ McpTornDown
        /\ ~remote.agent

\* C12: cleanup never raises and is safe to repeat: no call of cleanup, the
\* first or a repeated one, ends with an exception, whichever remote calls
\* fail, deletes of already deleted resources included.
C12_CleanupNeverRaises ==
    /\ cl.pc # "raised"
    /\ cl.result # "raised"

\* a second cleanup whose delete of the thread, deleted by the first, failed
C12_Witness ==
    /\ cl.runs = 2 /\ cl.pc = "done" /\ cl.given
    /\ ~remote.thread
    /\ "thread" \in cl.attempted /\ "agent" \notin cl.attempted

\* C13: initialize never raises: a failure at any step makes
\* AgentManager.initialize return False and app.initialize_agent return
\* (None, None), and afterwards the manager reports not initialized.
C13_InitializeNeverRaises ==
    ini.impl \in {"agent_manager", "app"} =>
        /\ ini.result # "raised"
        /\ ini.failedAt # "none" =>
              /\ ini.pc = "done" /\ ini.result = "failed"
              /\ ~IsInitialized(ini)
              /\ ini.impl = "app" => (~ini.agent /\ ~ini.thread)

\* the manager's initialize failed at its last step, after the agent was made
C13_Witness ==
    /\ ini.impl = "agent_manager" /\ ini.failedAt = "create_thread"
    /\ ini.agent /\ ini.result = "failed"

InitOrder == <<"config", "auth", "clients", "tools", "instructions", "create_agent",
               "enable_auto_function_calls", "create_thread">>

\* C14: initialize runs its steps in the fixed order configuration
\* validation, authentication, tool loading, agent creation, enabling
\* automatic function calls, thread creation; no step runs after a failed one,
\* the agent is created only with the tools in the toolset, and success is
\* reported only after the thread was created.
C14_InitializeInOrder ==
    /\ IsPrefix(ini.log, InitOrder)
    /\ ini.failedAt # "none" => ini.log[Len(ini.log)] = ini.failedAt
    /\ "create_agent" \in Range(ini.log) =>
          ini.toolset = <<"mcp_tools", "code_interpreter">>
    /\ ini.result = "ok" => (ini.log = InitOrder /\ ini.thread)

\* a successful initialize
C14_Witness == ini.result = "ok" /\ ini.pc = "done" /\ ini.log = InitOrder

\* C15: configuration validation names every missing required setting in one
\* error: whenever some required settings are empty, the validation fails
\* with an error that lists all of them.
C15_EveryMissingSettingNamed ==
    (ini.log # <<>> /\ Missing(ini.cfg) # {}) =>
        /\ ini.failedAt = "config"
        /\ ini.error = Missing(ini.cfg)

\* C16: a tool-catalog failure never fails startup: when the fetch fails or
\* returns nothing, fetch_and_build_mcp_tools returns an empty function tool,
\* initialize goes on to create the agent and the thread, and the toolset
\* holds the code interpreter.
C16_ToolFailureNotFatal ==
    ("tools" \in Range(ini.log) /\ ini.fetched = 0) =>
        /\ ini.failedAt # "tools"
        /\ ini.mcp_tools /\ ini.adapters = 0
        /\ "code_interpreter" \in Range(ini.toolset)
        /\ ini.failedAt = "none" => ini.pc \in {"create_agent", "create_thread", "done"}

\* initialize succeeded although the catalog fetch had failed
C16_Witness ==
    /\ ini.result = "ok" /\ ini.thread /\ ini.agent
    /\ ini.fetched = 0 /\ ini.adapters = 0
    /\ nOps = 1 /\ lastFailed

(***************************************************************************)
(* Further properties of the MCP client (checked under SpecMcp)            *)
(***************************************************************************)
NothingOpen ==
    \A i \in ObjIds : ctxState[i] # "open" /\ sessState[i] \notin {"entered", "initialized"}

\* C17: fetch_tools_async fails softly: it never raises, and when
\* establishing the session or listing the tools failed it has closed the
\* session (the client holds no session and no transport, none is left open)
\* and returns an empty list.
C17_FetchToolsFailsSoftly ==
    \A t \in Tasks :
        (op[t] = "fetch_tools" /\ pc[t] = "done") =>
            /\ res[t].kind = "list"
            /\ faulted[t] => (res[t] = ToolList(0) /\ ClientClosed /\ NothingOpen)

\* a catalog fetch whose request failed on an established session
C17_Witness ==
    \E t \in Tasks :
        /\ op[t] = "fetch_tools" /\ pc[t] = "done"
        /\ faulted[t] /\ opened[t] = 1
        /\ res[t] = ToolList(0)
        /\ \E i \in ObjIds : sessState[i] \in {"exited", "exit_failed"}

\* C20: close_session closes the session handle before the transport, still
\* closes the transport when closing the session handle raised, never raises,
\* and leaves _session, _client_context, _read and _write all None.
C20_CloseSessionOrder ==
    \A t \in Tasks :
        /\ pc[t] # "cs_raise"
        /\ pc[t] = "cs_ctx_exit" => client.session = None
        /\ pc[t] = "cs_done" => (ClientClosed /\ NothingOpen)

\* a close_session whose session exit raised and which closed the transport
C20_Witness ==
    \E t \in Tasks :
        /\ pc[t] = "cs_done" /\ op[t] = "close_session"
        /\ outc[t] = "fail"
        /\ loc[t] # None /\ ctxState[loc[t]] \in {"exited", "exit_failed"}

C22_NoRetry ==
    \A t \in Tasks :
        op[t] \in ToolOps =>
            /\ sent[t] <= 1
            /\ opened[t] <= 1
            /\ faulted[t] =>
                  pc[t] \notin {"es_check", "es_ctx_enter", "es_sess_enter", "es_init",
                                "op_request", "op_wait"}

\* a call that opened a session, sent its request, saw it fail, and returned
C22_Witness ==
    \E t \in Tasks :
        /\ pc[t] = "done" /\ op[t] \in ToolOps
        /\ faulted[t] /\ sent[t] = 1 /\ opened[t] = 1 /\ ~served[t]

\* C31: under single-flight use the client owns at most one open transport
\* and one session at any moment, and between operations it is in exactly one
\* of two states: closed (no session, no transport context, no streams) or
\* ready (session and context set, the handshake completed on an open
\* transport).
C31_ClosedOrReady ==
    /\ Cardinality({i \in ObjIds : ctxState[i] = "open"}) <= 1
    /\ Cardinality({i \in ObjIds : sessState[i] \in {"entered", "initialized"}}) <= 1
    /\ \A i \in ObjIds : ctxState[i] = "open" => client.ctx = i
    /\ \A i \in ObjIds : sessState[i] \in {"entered", "initialized"} => client.session = i
    /\ (\A t \in Tasks : pc[t] \in {"idle", "done"}) =>
          /\ ClientClosed \/ ClientReady
          /\ ~(ClientClosed /\ ClientReady)

\* between operations the client has been ready, then closed by a failed
\* operation, and is ready again on its second transport
C31_Witness ==
    /\ \A t \in Tasks : pc[t] = "idle"
    /\ ClientReady
    /\ \E i \in ObjIds : ctxState[i] \in {"exited", "exit_failed"}

\* C38: close_session is idempotent: on a client that is already closed it
\* makes no close call and leaves the client, the sessions and the transports
\* as they are; and over close_session calls in a row each session handle and
\* each transport is exited at most once (an __aexit__ is only ever called on
\* an object that has not been exited before).
C38_CloseSessionIdempotent ==
    [][\A t \in Tasks :
          /\ (pc[t] # "cs_sess_exit" /\ pc'[t] = "cs_sess_exit") =>
                sessState[loc'[t]] \notin {"unused", "exited", "exit_failed"}
          /\ (pc[t] # "cs_ctx_exit" /\ pc'[t] = "cs_ctx_exit") =>
                ctxState[loc'[t]] \notin {"unused", "exited", "exit_failed"}
          /\ (ClientClosed /\ pc[t] \in {"cs_check_sess", "cs_check_ctx"}) =>
                /\ pc'[t] \notin {"cs_sess_exit", "cs_ctx_exit"}
                /\ UNCHANGED <<client, ctxState, sessState>>]_vars

\* a close_session called right after an operation whose failure handler had
\* already closed the session and the transport
C38_Witness ==
    \E t \in Tasks :
        /\ op[t] = "close_session" /\ pc[t] = "done"
        /\ afterFail[t]
        /\ ClientClosed
        /\ \E i \in ObjIds : ctxState[i] = "exited"
        /\ \E i \in ObjIds : sessState[i] = "exited"

\* C32 (checked under SpecConcurrent): when two call_tool_async /
\* fetch_tools_async calls interleave at their awaits while the client has no
\* session, at most one subprocess transport is spawned, and no opened
\* transport is left open without being referenced by the client.
C32_OneTransportWhenInterleaved ==
    /\ Cardinality({i \in ObjIds : ctxState[i] \in {"created", "open"}}) <= 1
    /\ \A i \in ObjIds : ctxState[i] = "open" => client.ctx = i

(***************************************************************************)
(* Properties of the tool layer (checked under SpecTools)                  *)
(***************************************************************************)
\* the adapters made from the k-th descriptor
AdaptersOf(k) == {a \in tl.adapters : a.id = k}

\* C18: for every catalog of N >= 0 tools the tool layer yields exactly N
\* descriptors, in the catalog's order and with its names, and exactly N
\* adapters; every descriptor has exactly one adapter, whose name and
\* documentation are the descriptor's name and description.
C18_OneAdapterPerTool ==
    LET N == Len(tl.catalog) IN
    /\ tl.pc \in {"fetched", "built"} =>
          /\ Len(tl.descriptors) = N
          /\ \A k \in 1..N : tl.descriptors[k].function.name = tl.catalog[k].name
    /\ tl.pc = "built" =>
          /\ Cardinality(tl.adapters) = N
          /\ \A k \in 1..N :
                /\ Cardinality(AdaptersOf(k)) = 1
                /\ \A a \in AdaptersOf(k) :
                      /\ a.name = tl.descriptors[k].function.name
                      /\ a.doc = tl.descriptors[k].function.description

\* the adapters of a catalog of two tools, one of them generic
C18_Witness ==
    /\ tl.pc = "built" /\ Len(tl.catalog) = 2
    /\ Cardinality(tl.adapters) = 2
    /\ \E a \in tl.adapters : a.name = "get_table_schema"

\* C19: for each descriptor, the adapter has a named-parameter signature
\* matching the descriptor's schema whenever that schema declares named
\* parameters, and an arbitrary-keyword-arguments signature exactly when it
\* declares none.
C19_SignatureMatchesSchema ==
    tl.pc = "built" =>
        \A a \in tl.adapters :
            LET ps == tl.descriptors[a.id].function.parameters IN
            /\ ps # {} => a.signature = NamedSignature(ps)
            /\ a.signature = KwargsSignature <=> ps = {}

(***************************************************************************)
(* Properties of the command-line loop (checked under SpecCli)             *)
(***************************************************************************)
\* the input is the word c, in any case, between blanks
IsCommand(input, c) ==
    \E k \in 1..Len(input) :
        /\ Lower(input[k]) = c
        /\ \A j \in (1..Len(input)) \ {k} : input[j] = " "

SavedReached == cli.pc = "saved" /\ cli.posts = 1 /\ remote.files # {}

(***************************************************************************)
(* Properties of the stateless handlers (checked under SpecHandlers)       *)
(***************************************************************************)
Escapes(fs, filename) ==
    LET target == Resolve(fs, FilesDir, filename)
    IN ~IsPrefix(FilesDir, target)

\* C27: serve_file never returns a file whose resolved path lies outside the
\* files directory, and every file name whose resolved path escapes that
\* directory is answered with access-denied (403).
C27_ServeFileConfined ==
    web.call = "serve_file" =>
        /\ web.resp.status = 200 =>
              (~Escapes(web.fs, web.arg) /\ web.resp.file \in web.fs.files)
        /\ Escapes(web.fs, web.arg) => web.resp.status = 403

\* the half of C27 that holds: a file that is returned lies inside the files
\* directory, and an existing file outside it is answered with 403
ServeFileNeverLeaks ==
    web.call = "serve_file" =>
        /\ web.resp.status = 200 =>
              (~Escapes(web.fs, web.arg) /\ web.resp.file \in web.fs.files)
        /\ (Escapes(web.fs, web.arg) /\ IsFile(web.fs, FilesDir, web.arg)) =>
              web.resp.status = 403

\* the file system with the file at path p created if absent, removed if present
Toggled(fs, p) ==
    [fs EXCEPT !.files = IF p \in @ THEN @ \ {p} ELSE @ \cup {p}]

\* C35: for a file name whose resolved path lies outside the files directory,
\* the response of serve_file is the same whether or not a file exists at that
\* outside location (a location that is not one of the directories).
C35_OutsideExistenceHidden ==
    LET target == Resolve(web.fs, FilesDir, web.arg)
    IN  (/\ web.call = "serve_file"
         /\ Escapes(web.fs, web.arg)
         /\ target \notin {<<>>, <<"shared">>, FilesDir}) =>
            ServeFile(Toggled(web.fs, target), web.arg) = web.resp

\* C28: the upload size boundary: upload_file returns the `File size too
\* large` error for content of 10*1024*1024 + 1 bytes or more, a content
\* response for content of exactly 10*1024*1024 bytes (that decodes), and in
\* every case (a failed read, oversize, undecodable bytes, any extension) a
\* structured value with `content` or with `error`, never an exception.
C28_UploadSizeBoundary ==
    web.call = "upload_file" =>
        LET file == web.arg[1]
            tooLarge == [error |-> "File size too large (max 10MB)"]
        IN /\ DOMAIN web.resp \in {{"error"}, {"content", "filename"}}
           /\ (file.read = "ok" /\ file.size >= 10 * 1024 * 1024 + 1) => web.resp = tooLarge
           /\ file.size <= 10 * 1024 * 1024 => web.resp # tooLarge
           /\ (file.read = "ok" /\ file.size = 10 * 1024 * 1024 /\ file.utf8) =>
                 /\ "content" \in DOMAIN web.resp
                 /\ web.resp.filename = file.filename

\* a text file of exactly 10 MiB was accepted
C28_Witness ==
    /\ web.call = "upload_file"
    /\ web.arg[1].size = 10 * 1024 * 1024 /\ web.arg[1].filename = <<"a", "TXT">>
    /\ "content" \in DOMAIN web.resp /\ web.resp.content[2] = "decoded"

\* C29: execute_sales_query hands a query to the database executor only if
\* the query is non-empty and has a LIMIT clause (a LIMIT keyword); for a
\* query lacking one it returns the fixed guidance string and the executor is
\* not invoked.
C29_QueryNeedsLimit ==
    web.call = "execute_sales_query" =>
        LET q == web.arg
            hasLimit == \E k \in 1..Len(q) : q[k] \in {"LIMIT", "limit"}
        IN /\ web.resp.executed => (q # <<>> /\ hasLimit)
           /\ (q # <<>> /\ ~hasLimit) =>
                 web.resp = [text |-> "Error: Query must include 'LIMIT 20'",
                             executed |-> FALSE]

\* C39: _extract_content returns the text of the first content block, and
\* the fixed sentinel `No result returned from tool` when there are no content
\* blocks; the blocks after the first never influence the returned string.
C39_FirstBlockOnly ==
    web.call = "extract_content" =>
        /\ web.arg = <<>> => web.resp.val = "No result returned from tool"
        /\ (web.arg # <<>> /\ web.arg[1].type = "text") => web.resp.val = web.arg[1].text
        /\ \A c \in Contents :
              (c # <<>> /\ web.arg # <<>> /\ c[1] = web.arg[1]) =>
                  ExtractContent(c) = web.resp.val

\* a result of two different blocks, the first a text block
C39_Witness ==
    /\ web.call = "extract_content"
    /\ Len(web.arg) = 2
    /\ web.arg[1].type = "text" /\ web.arg[2] # web.arg[1]
    /\ web.resp.val = web.arg[1].text

====
